---- MODULE Spec2Model ----
(***************************************************************************)
(* Channel message handling of open-chat-studio (apps/chat/channels.py)    *)
(* and the part of the LLM runnable pipeline it drives                     *)
(* (apps/service_providers/llm_service/runnables.py).                      *)
(*                                                                         *)
(* The database (Participant, ExperimentSession, ChatMessage rows) is the  *)
(* state.  One action handles one inbound message from construction of    *)
(* the handler (apps/channels/tasks.py) to the return of new_user_message. *)
(* The handler is written as a composition of operators over a context     *)
(* record c: the rows, the handler object's fields (experiment_session,    *)
(* _user_query) and what the handling did to the outside world (texts and  *)
(* voice notes sent, pipeline calls, triggers enqueued, exception raised). *)
(*                                                                         *)
(* A text is a sequence of one-character strings, so that str.strip() and  *)
(* the comparison with the reset command are computed, not assumed.        *)
(*                                                                         *)
(* Environment: database writes and platform sends succeed; what can fail  *)
(* is what the code itself catches or raises: audio fetch/transcription,   *)
(* the pipeline (GenerationCancelled, provider error) and voice synthesis. *)
(* Sessions created by the 2023 data migration without experiment_channel  *)
(* (channels.py:423-433) do not occur: every session here has its channel. *)
(***************************************************************************)
EXTENDS Integers, Sequences, FiniteSets, TLC

VARIABLES
    platform,       \* ExperimentChannel.platform of the one channel
    service,        \* capabilities of the channel's messaging service
    experiment,     \* the Experiment's configuration (read-only for the core)
    callers,        \* the chat identities that talk to the channel
    participants,   \* Participant rows, in creation order
    sessions,       \* ExperimentSession rows of the experiment, in created_at order
    last,           \* observation of the most recent operation
    run,            \* one invoke of the experiment's runnable (runnables.py)
    race            \* concurrent session creations and the rows they see

vars == <<platform, service, experiment, callers, participants, sessions, last,
          run, race>>

\* What message handling reads and writes
channel == <<platform, service, experiment, callers, participants, sessions, last>>

----------------------------------------------------------------------------
(* Bounds of the model *)

\* ExperimentSession rows per run: with one caller, with two callers
MaxSessions == 2
MaxSessionsTwo == 3

\* Chat identities, in the order in which they make first contact
OneCaller == {"u1"}
TwoCallers == {"u1", "u2"}

----------------------------------------------------------------------------
(* Constants of the program *)

USER_CONSENT_TEXT == <<"1">>
RESET_COMMAND == <<"/", "r", "e", "s", "e", "t">>

TEXT == "text"
VOICE == "voice"
PHOTO == "photo"

SETUP == "setup"
PENDING == "pending"
PENDING_PRE_SURVEY == "pending-pre-survey"
ACTIVE == "active"
SessionStatus == {SETUP, PENDING, PENDING_PRE_SURVEY, ACTIVE}

HUMAN == "human"
AI == "ai"
SYSTEM == "system"

WEB == "web"
TELEGRAM == "telegram"
WHATSAPP == "whatsapp"
FACEBOOK == "facebook"
API == "api"
SLACK == "slack"
ChannelPlatform == {WEB, TELEGRAM, WHATSAPP, FACEBOOK, API, SLACK}

ALWAYS == "always"
RECIPROCAL == "reciprocal"
NEVER == "never"

\* Inbound texts: consent token, padded consent tokens, small talk, the
\* empty text, the reset command and a padded reset command.
Texts ==
    { <<"1">>, <<" ", "1">>, <<"h", "i">>, <<>>, RESET_COMMAND }

----------------------------------------------------------------------------
(* Text helpers *)

RECURSIVE LStrip(_)
LStrip(s) ==
    IF s # <<>> /\ Head(s) = " " THEN LStrip(Tail(s)) ELSE s

RECURSIVE RStrip(_)
RStrip(s) ==
    IF s # <<>> /\ s[Len(s)] = " " THEN RStrip(SubSeq(s, 1, Len(s) - 1)) ELSE s

\* str.strip()
Strip(s) == RStrip(LStrip(s))

----------------------------------------------------------------------------
(* Rows and the handler's context *)

Message(type, kind, text) == [type |-> type, kind |-> kind, text |-> text]

\* self._user_query = None
NoQuery == [none |-> TRUE, val |-> <<>>]

\* Python truthiness of self._user_query: None and "" are falsy
Falsy(uq) == uq.none \/ uq.val = <<>>

\* A handler object just constructed for session es (0: no session) over the
\* rows as they are now, before it has done anything.
NewHandler(es) ==
    [ sessions |-> sessions, participants |-> participants,
      es |-> es, uq |-> NoQuery,
      sent |-> <<>>, llm |-> <<>>, events |-> <<>>, appended |-> <<>>, ntrans |-> 0,
      replies |-> <<>>,
      exc |-> "none", answer |-> "None", ret |-> "None",
      resolved |-> 0, status0 |-> "none", created |-> FALSE, didReset |-> FALSE ]

Raise(c, e) == [c EXCEPT !.exc = e]

Raised(c) == c.exc # "none"

\* enqueue_static_triggers.delay(session.id, type)
EnqueueStaticTrigger(c, type) ==
    [c EXCEPT !.events = Append(@, [type |-> type, session |-> c.es])]

\* ChatMessage.objects.create(chat=self.experiment_session.chat, ...): the
\* chat is kept as the set of the types of its entries, which decides
\* everything the channel code reads back from it (whether it is empty,
\* whether the user engaged); each entry, with its content and its order, is
\* observed where it is written (c.appended)
AddMessageToHistory(c, msg) ==
    [c EXCEPT !.sessions[c.es].chat = @ \cup {msg.type},
              !.appended = Append(@, [session |-> c.es, type |-> msg.type,
                                      kind |-> msg.kind, text |-> msg.text])]

\* ExperimentSession.update_status(status)
UpdateStatus(c, status) ==
    [c EXCEPT !.sessions[c.es].status = status]

\* ExperimentSession.end(): stamps ended_at
EndSession(c) ==
    [c EXCEPT !.sessions[c.es].ended = TRUE]

\* ExperimentSession.user_already_engaged()
UserAlreadyEngaged(session) ==
    \E type \in session.chat : type # SYSTEM

\* Index of the Participant row with this identifier, 0 if there is none
FindParticipant(ps, identifier) ==
    IF \E i \in 1..Len(ps) : ps[i].identifier = identifier
    THEN CHOOSE i \in 1..Len(ps) :
            /\ ps[i].identifier = identifier
            /\ \A j \in 1..Len(ps) : ps[j].identifier = identifier => i <= j
    ELSE 0

\* A lookup that takes the experiment's latest session, whoever it belongs to
LatestSessionOfAnyone(ss, ps, identifier) ==
    Len(ss)

\* A lookup ordered by created_at ascending: the identity's oldest session
EarliestSession(ss, ps, identifier) ==
    LET mine == { i \in 1..Len(ss) : ps[ss[i].participant].identifier = identifier }
    IN IF mine = {} THEN 0 ELSE CHOOSE i \in mine : \A j \in mine : i <= j

\* ExperimentSession.objects.filter(experiment=..., participant__identifier=...)
\*     .order_by("-created_at").first()        (0: None); ended sessions are
\*     not filtered out
LatestSession(ss, ps, identifier) ==
    LET mine == { i \in 1..Len(ss) : ps[ss[i].participant].identifier = identifier }
    IN IF mine = {} THEN 0 ELSE CHOOSE i \in mine : \A j \in mine : j <= i

SessionsOf(ss, ps, identifier) ==
    { i \in 1..Len(ss) : ps[ss[i].participant].identifier = identifier }

----------------------------------------------------------------------------
(* What each platform's channel class declares or overrides *)

\* message_content_type: WebChannel, ApiChannel and SlackChannel answer TEXT
\* for every message, the others read it off the message
MessageContentType(m) ==
    IF platform \in {WEB, API, SLACK} THEN TEXT ELSE m.content_type

SupportedMessageTypes ==
    CASE platform = TELEGRAM -> {TEXT, VOICE}
      [] platform \in {WHATSAPP, FACEBOOK} -> service.supported_message_types
      [] OTHER -> {TEXT}

VoiceRepliesSupported ==
    CASE platform = TELEGRAM -> TRUE
      [] platform \in {WHATSAPP, FACEBOOK} -> service.voice_replies_supported
      [] OTHER -> FALSE

\* is_message_type_supported
IsMessageTypeSupported(m) ==
    MessageContentType(m) \in SupportedMessageTypes

\* send_text_to_user: WebChannel and ApiChannel inherit the abstract body (pass)
SendTextToUser(c, body) ==
    IF platform \in {WEB, API}
    THEN c
    ELSE [c EXCEPT !.sent = Append(@, [kind |-> TEXT, body |-> body])]

\* send_voice_to_user
SendVoiceToUser(c, body) ==
    [c EXCEPT !.sent = Append(@, [kind |-> VOICE, body |-> body])]

\* transcription_finished: Telegram, WhatsApp and Facebook echo the transcript
TranscriptionFinished(c) ==
    CASE platform = TELEGRAM -> [c EXCEPT !.sent = Append(@, [kind |-> TEXT, body |-> "heard"])]
      [] platform \in {WHATSAPP, FACEBOOK} -> SendTextToUser(c, "heard")
      [] OTHER -> c

----------------------------------------------------------------------------
(* The pipeline as the channel sees it *)

\* ExperimentRunnable.invoke / AssistantExperimentRunnable.invoke after the
\* human turn: a cancelled generation raises GenerationCancelled, a provider
\* error propagates, otherwise the AI turn is saved.  The reply to a call of
\* kind k is the text tagged k.
Generate(c, kind, outcome) ==
    CASE outcome = "error" -> Raise(c, "ProviderError")
      [] outcome = "cancelled" -> Raise(c, "GenerationCancelled")
      [] OTHER -> [AddMessageToHistory(c, Message(AI, kind, <<>>)) EXCEPT !.answer = kind]

\* ExperimentRunnable.invoke / AssistantExperimentRunnable.invoke: the human
\* turn is saved before generation, if enabled
Invoke(c, kind, text, save_input_to_history, outcome) ==
    IF save_input_to_history
    THEN Generate(AddMessageToHistory(c, Message(HUMAN, kind, text)), kind, outcome)
    ELSE Generate(c, kind, outcome)

\* TopicBot(session).process_input(user_input, save_input_to_history)
ProcessInput(c, kind, text, save_input_to_history, env) ==
    Invoke([c EXCEPT !.llm = Append(@, [kind |-> kind, text |-> text,
                                        save_input |-> save_input_to_history,
                                        session |-> c.es, outcome |-> env.llm])],
           kind, text, save_input_to_history, env.llm)

\* _generate_response_for_user(prompt)
GenerateResponseForUser(c, kind, env) ==
    ProcessInput(c, kind, <<>>, FALSE, env)

----------------------------------------------------------------------------
(* ChannelBase: replies *)

\* _reply_voice_message without the except clause
ReplyVoiceMessageUncaught(c, body, env) ==
    IF env.synth = "ok" THEN SendVoiceToUser(c, body)
    ELSE Raise(c, "AudioSynthesizeException")

\* _reply_voice_message: a failed synthesis falls back to text
ReplyVoiceMessage(c, body, env) ==
    IF env.synth = "ok" THEN SendVoiceToUser(c, body) ELSE SendTextToUser(c, body)

\* the choice of _send_message_to_user without the voice_config branches
VoiceReplyChosenWhateverThePolicy(m) ==
    VoiceRepliesSupported /\ experiment.synthetic_voice

\* _send_message_to_user: whether send_message_func is _reply_voice_message
VoiceReplyChosen(m) ==
    /\ VoiceRepliesSupported
    /\ experiment.synthetic_voice
    /\ \/ experiment.voice_response_behaviour = ALWAYS
       \/ /\ experiment.voice_response_behaviour = RECIPROCAL
          /\ MessageContentType(m) = VOICE

\* notes a reply handed to _send_message_to_user: its text, the function
\* chosen for it and, for a voice reply, how the synthesis ends
Dispatched(c, body, voice, env) ==
    [c EXCEPT !.replies = Append(@, [body |-> body, voice |-> voice,
                                     synth |-> IF voice THEN env.synth ELSE "none"])]

\* _send_message_to_user
SendMessageToUser(c, m, body, env) ==
    IF VoiceReplyChosen(m)
    THEN ReplyVoiceMessage(Dispatched(c, body, TRUE, env), body, env)
    ELSE SendTextToUser(Dispatched(c, body, FALSE, env), body)

\* new_bot_message: WebChannel and ApiChannel override it with pass
NewBotMessage(c, m, body, env) ==
    IF platform \in {WEB, API} THEN c ELSE SendMessageToUser(c, m, body, env)

\* sends the answer of the generation that ended in c, unless it raised
SendAnswer(c, m, env) ==
    IF Raised(c) THEN c ELSE NewBotMessage(c, m, c.answer, env)

\* _inform_user_of_error
InformUserOfError(c, m, env) ==
    SendAnswer(GenerateResponseForUser(c, "error", env), m, env)

----------------------------------------------------------------------------
(* ChannelBase: the user query *)

\* _get_voice_transcript; the audio of a voice message says m.text
GetVoiceTranscript(c, m, env) ==
    IF env.transcribe = "fail"
    THEN Raise([c EXCEPT !.ntrans = @ + 1], "TranscriptionError")
    ELSE [TranscriptionFinished(c) EXCEPT !.ntrans = @ + 1,
                                          !.uq = [none |-> FALSE, val |-> m.text]]

\* the except clause of _extract_user_query: c is the notice's context, e
\* the exception that was caught and is raised again
ReRaise(c, e) ==
    IF Raised(c) THEN c ELSE Raise(c, e)

\* _extract_user_query for a voice message, given the transcription's context
ExtractedVoice(c, m, env) ==
    IF Raised(c)
    THEN ReRaise(InformUserOfError([c EXCEPT !.exc = "none"], m, env), c.exc)
    ELSE c

\* _extract_user_query
ExtractUserQuery(c, m, env) ==
    IF MessageContentType(m) = VOICE
    THEN ExtractedVoice(GetVoiceTranscript(c, m, env), m, env)
    ELSE [c EXCEPT !.uq = [none |-> FALSE, val |-> m.text]]

\* the user_query property: the context after reading it; its value is .uq.val
UserQuery(c, m, env) ==
    IF Falsy(c.uq) THEN ExtractUserQuery(c, m, env) ELSE c

\* _is_reset_conversation_request, on a context that has read the query
IsResetConversationRequest(c) ==
    c.uq.val = RESET_COMMAND

\* _user_gave_consent that takes every reply for consent
UserGaveConsentWhateverTheReply(c) ==
    TRUE

\* _user_gave_consent that compares the text as it was typed
UserGaveConsentUnstripped(c) ==
    c.uq.val = USER_CONSENT_TEXT

\* _user_gave_consent, on a context that has read the query
UserGaveConsent(c) ==
    Strip(c.uq.val) = USER_CONSENT_TEXT

----------------------------------------------------------------------------
(* ChannelBase: sessions *)

\* the chat_id property
ChatId(c, m) ==
    IF c.es # 0 THEN c.participants[c.sessions[c.es].participant].identifier
    ELSE m.chat_id

\* Participant.objects.get_or_create(identifier=..., team=...): the rows after
GetOrCreateParticipant(ps, identifier) ==
    IF FindParticipant(ps, identifier) = 0
    THEN Append(ps, [identifier |-> identifier, user |-> FALSE])
    ELSE ps

\* ExperimentSession.objects.create(participant=..., ...) and the trigger
CreateSession(c, ps, participant) ==
    EnqueueStaticTrigger(
        [c EXCEPT !.participants = ps,
                  !.sessions = Append(@, [participant |-> participant, status |-> SETUP,
                                          ended |-> FALSE, chat |-> {}]),
                  !.es = Len(c.sessions) + 1],
        "conversation_start")

\* _create_new_experiment_session
CreateNewExperimentSession(c, m) ==
    IF c.es = 0
    THEN CreateSession(c, GetOrCreateParticipant(c.participants, ChatId(c, m)),
                       FindParticipant(GetOrCreateParticipant(c.participants, ChatId(c, m)),
                                       ChatId(c, m)))
    ELSE CreateSession(c, c.participants, c.sessions[c.es].participant)

\* _reset_session that does not end the session it replaces
ResetSessionKeepsOld(c, m) ==
    [CreateNewExperimentSession(c, m) EXCEPT !.didReset = TRUE]

\* _reset_session
ResetSession(c, m) ==
    [CreateNewExperimentSession(EndSession(c), m) EXCEPT !.didReset = TRUE]

\* _ensure_sessions_exists that resets whether or not the user had engaged
ResetIfRequestedAlways(c, m) ==
    IF Raised(c) THEN c
    ELSE IF IsResetConversationRequest(c) THEN ResetSession(c, m) ELSE c

\* _ensure_sessions_exists where a session was found, given the context that
\* read the query
ResetIfRequested(c, m) ==
    IF Raised(c) THEN c
    ELSE IF IsResetConversationRequest(c) /\ UserAlreadyEngaged(c.sessions[c.es])
         THEN ResetSession(c, m)
         ELSE c

\* _ensure_sessions_exists that creates a session for every message
EnsureFoundAlwaysCreates(c, found, m, env) ==
    EnqueueStaticTrigger(
        [CreateNewExperimentSession([c EXCEPT !.es = 0], m) EXCEPT !.created = TRUE],
        "participant_joined")

\* _ensure_sessions_exists, given the session found for the chat id (0: none)
EnsureFound(c, found, m, env) ==
    IF found = 0
    THEN EnqueueStaticTrigger(
            [CreateNewExperimentSession([c EXCEPT !.es = 0], m) EXCEPT !.created = TRUE],
            "participant_joined")
    ELSE ResetIfRequested(UserQuery([c EXCEPT !.es = found], m, env), m)

\* ChannelBase._ensure_sessions_exists
BaseEnsureSessionsExists(c, m, env) ==
    EnsureFound(c, LatestSession(c.sessions, c.participants, ChatId(c, m)), m, env)

\* an _ensure_sessions_exists of WebChannel and SlackChannel that starts a
\* session for a participant of its own when the handler was given none
BoundEnsureSessionsExistsStartsOne(c) ==
    IF c.es = 0
    THEN CreateSession(c, GetOrCreateParticipant(c.participants, "anonymous"),
                       FindParticipant(GetOrCreateParticipant(c.participants, "anonymous"),
                                       "anonymous"))
    ELSE c

\* WebChannel._ensure_sessions_exists, SlackChannel._ensure_sessions_exists
BoundEnsureSessionsExists(c) ==
    IF c.es = 0 THEN Raise(c, "MessageHandlerException") ELSE c

EnsureSessionsExists(c, m, env) ==
    IF platform \in {WEB, SLACK}
    THEN BoundEnsureSessionsExists(c)
    ELSE BaseEnsureSessionsExists(c, m, env)

\* notes which session was resolved and its status then
Resolved(c) ==
    IF c.es = 0 THEN c
    ELSE [c EXCEPT !.resolved = c.es, !.status0 = c.sessions[c.es].status]

\* _add_message
AddMessage(c, m, env) ==
    Resolved(EnsureSessionsExists([c EXCEPT !.uq = NoQuery], m, env))

----------------------------------------------------------------------------
(* ChannelBase: consent and survey gating *)

\* _ask_user_for_consent
AskUserForConsent(c) ==
    SendTextToUser(AddMessageToHistory(c, Message(AI, "consent", <<>>)), "consent")

\* _ask_user_to_take_survey
AskUserToTakeSurvey(c) ==
    SendTextToUser(AddMessageToHistory(c, Message(AI, "survey", <<>>)), "survey")

\* _chat_initiated that asks for consent but leaves the status as it is
ChatInitiatedKeepsStatus(c) ==
    AskUserForConsent(c)

\* _chat_initiated
ChatInitiated(c) ==
    AskUserForConsent(UpdateStatus(c, PENDING))

\* start_conversation that forgets the seed message
StartConversationWithoutSeed(c, m, env) ==
    UpdateStatus(c, ACTIVE)

\* start_conversation
StartConversation(c, m, env) ==
    IF experiment.seed_message
    THEN SendAnswer(GenerateResponseForUser(UpdateStatus(c, ACTIVE), "seed", env), m, env)
    ELSE UpdateStatus(c, ACTIVE)

\* _should_handle_pre_conversation_requirements
ShouldHandlePreConversationRequirements(c) ==
    c.sessions[c.es].status \in {SETUP, PENDING, PENDING_PRE_SURVEY}

\* _handle_pre_conversation_requirements, status PENDING, given the context
\* that read the query
WhilePending(c, m, env) ==
    IF Raised(c) THEN c
    ELSE IF UserGaveConsent(c)
         THEN IF ~experiment.pre_survey
              THEN StartConversation(c, m, env)
              ELSE AskUserToTakeSurvey(UpdateStatus(c, PENDING_PRE_SURVEY))
         ELSE AskUserForConsent(c)

\* _handle_pre_conversation_requirements, status PENDING_PRE_SURVEY, that
\* starts the gating over when the reply does not confirm
WhilePendingPreSurveyStartsOver(c, m, env) ==
    IF Raised(c) THEN c
    ELSE IF UserGaveConsent(c)
         THEN StartConversation(c, m, env)
         ELSE ChatInitiated(c)

\* _handle_pre_conversation_requirements, status PENDING_PRE_SURVEY, given
\* the context that read the query
WhilePendingPreSurvey(c, m, env) ==
    IF Raised(c) THEN c
    ELSE IF UserGaveConsent(c)
         THEN StartConversation(c, m, env)
         ELSE AskUserToTakeSurvey(c)

\* _handle_pre_conversation_requirements, after the message was added to the
\* history
GateByStatus(c, m, env) ==
    CASE c.sessions[c.es].status = SETUP -> ChatInitiated(c)
      [] c.sessions[c.es].status = PENDING -> WhilePending(UserQuery(c, m, env), m, env)
      [] c.sessions[c.es].status = PENDING_PRE_SURVEY ->
            WhilePendingPreSurvey(UserQuery(c, m, env), m, env)
      [] OTHER -> c

\* _handle_pre_conversation_requirements that does not record the message
AddQueryAndGateUnrecorded(c, m, env) ==
    IF Raised(c) THEN c ELSE GateByStatus(c, m, env)

\* _handle_pre_conversation_requirements, given the context that read the
\* query: the message is added to the history first
AddQueryAndGate(c, m, env) ==
    IF Raised(c) THEN c
    ELSE GateByStatus(AddMessageToHistory(c, Message(HUMAN, "user", c.uq.val)), m, env)

\* _handle_pre_conversation_requirements
HandlePreConversationRequirements(c, m, env) ==
    AddQueryAndGate(UserQuery(c, m, env), m, env)

----------------------------------------------------------------------------
(* ChannelBase: handling a message *)

\* _get_llm_response / _get_experiment_response, given the context that read
\* the query
GetLlmResponse(c, env) ==
    IF Raised(c) THEN c ELSE ProcessInput(c, "user", c.uq.val, TRUE, env)

\* _handle_supported_message, given the context of the pipeline call
SendResponse(c, m, env) ==
    IF Raised(c) THEN c
    ELSE [SendMessageToUser(c, m, c.answer, env) EXCEPT !.ret = c.answer]

\* _handle_supported_message
HandleSupportedMessage(c, m, env) ==
    SendResponse(GetLlmResponse(UserQuery(c, m, env), env), m, env)

\* _handle_unsupported_message, given the context of the pipeline call
SendExplanation(c) ==
    IF Raised(c) THEN c ELSE SendTextToUser(c, c.answer)

\* _unsupported_message_type_response and _handle_unsupported_message
HandleUnsupportedMessage(c, env) ==
    SendExplanation(
        GenerateResponseForUser(
            AddMessageToHistory(c, Message(SYSTEM, "unsupported", <<>>)),
            "unsupported", env))

\* _new_user_message, from the point where a supported message goes on to
\* the pipeline
ForwardToPipeline(c, m, env) ==
    HandleSupportedMessage(EnqueueStaticTrigger(c, "new_human_message"), m, env)

\* _new_user_message on a channel other than web that leaves the status
\* alone when conversational consent is disabled
HandleOffWebKeepsStatus(c, m, env) ==
    IF Raised(c) THEN c
    ELSE IF IsResetConversationRequest(c) THEN c
    ELSE IF experiment.conversational_consent_enabled
            /\ ShouldHandlePreConversationRequirements(c)
         THEN HandlePreConversationRequirements(c, m, env)
         ELSE ForwardToPipeline(c, m, env)

\* _new_user_message on a channel other than web without the reset check
HandleOffWebGatesResets(c, m, env) ==
    IF Raised(c) THEN c
    ELSE IF experiment.conversational_consent_enabled
         THEN IF ShouldHandlePreConversationRequirements(c)
              THEN HandlePreConversationRequirements(c, m, env)
              ELSE ForwardToPipeline(c, m, env)
         ELSE ForwardToPipeline(UpdateStatus(c, ACTIVE), m, env)

\* _new_user_message on a channel other than web, given the context that
\* read the query for the reset check
HandleOffWeb(c, m, env) ==
    IF Raised(c) THEN c
    ELSE IF IsResetConversationRequest(c) THEN c
    ELSE IF experiment.conversational_consent_enabled
         THEN IF ShouldHandlePreConversationRequirements(c)
              THEN HandlePreConversationRequirements(c, m, env)
              ELSE ForwardToPipeline(c, m, env)
         ELSE ForwardToPipeline(UpdateStatus(c, ACTIVE), m, env)

\* _new_user_message that gates web messages like all others
HandleAddedGatingWeb(c, m, env) ==
    IF Raised(c) THEN c
    ELSE IF ~IsMessageTypeSupported(m) THEN HandleUnsupportedMessage(c, env)
    ELSE HandleOffWeb(UserQuery(c, m, env), m, env)

\* _new_user_message, after _add_message
HandleAdded(c, m, env) ==
    IF Raised(c) THEN c
    ELSE IF ~IsMessageTypeSupported(m) THEN HandleUnsupportedMessage(c, env)
    ELSE IF platform # WEB
         THEN HandleOffWeb(UserQuery(c, m, env), m, env)
         ELSE ForwardToPipeline(c, m, env)

\* _new_user_message
NewUserMessageInner(c, m, env) ==
    HandleAdded(AddMessage(c, m, env), m, env)

\* new_user_message without the except clause
CatchCancelledNever(c) ==
    c

\* new_user_message, given the context in which _new_user_message ended: a
\* cancelled generation is no reply, not an error
CatchCancelled(c) ==
    IF c.exc = "GenerationCancelled"
    THEN [c EXCEPT !.exc = "none", !.ret = "empty"]
    ELSE c

\* new_user_message
NewUserMessage(c, m, env) ==
    CatchCancelled(NewUserMessageInner(c, m, env))

----------------------------------------------------------------------------
(* Session creation outside message handling *)

\* _start_experiment_session, as called by WebChannel.start_new_session and
\* SlackChannel.start_new_session.  user is "none" (no platform user),
\* "same" (a user whose email is the identifier) or "other" (a user with
\* another email, which is refused).
StartExperimentSession(c, identifier, user, session_status) ==
    LET found == FindParticipant(c.participants, identifier)
        ps == IF found = 0
              THEN Append(c.participants, [identifier |-> identifier, user |-> user = "same"])
              ELSE IF user = "same" /\ ~c.participants[found].user
                   THEN [c.participants EXCEPT ![found].user = TRUE]
                   ELSE c.participants
        participant == IF found = 0 THEN Len(ps) ELSE found
        session == [participant |-> participant, status |-> session_status,
                    ended |-> FALSE, chat |-> {}]
        c1 == [c EXCEPT !.participants = ps,
                        !.sessions = Append(@, session),
                        !.es = Len(c.sessions) + 1,
                        !.resolved = Len(c.sessions) + 1,
                        !.status0 = session_status,
                        !.created = TRUE]
        c2 == IF Cardinality(SessionsOf(c1.sessions, ps, identifier)) = 1
              THEN EnqueueStaticTrigger(c1, "participant_joined")
              ELSE c1
    IN IF user = "other" THEN Raise(c, "Exception")
       ELSE EnqueueStaticTrigger(c2, "conversation_start")

\* WebChannel.check_and_process_seed_message: the seed message is handed to a
\* task that answers it later
CheckAndProcessSeedMessage(c) ==
    IF experiment.seed_message /\ ~Raised(c)
    THEN EnqueueStaticTrigger(c, "seed_task")
    ELSE c

----------------------------------------------------------------------------
(* The state machine *)

NoMessage == [chat_id |-> "none", content_type |-> "none", text |-> <<>>]

\* The session an operation finds for the identity before it acts: the one
\* the handler was built for, else the identity's latest (0: none)
SessionBefore(chat_id, bound) ==
    IF bound # 0 THEN bound ELSE LatestSession(sessions, participants, chat_id)

\* Its status
StatusBefore(chat_id, bound) ==
    IF SessionBefore(chat_id, bound) = 0 THEN "none"
    ELSE sessions[SessionBefore(chat_id, bound)].status

\* The types of the entries in its history
HistoryBefore(chat_id, bound) ==
    IF SessionBefore(chat_id, bound) = 0 THEN {}
    ELSE sessions[SessionBefore(chat_id, bound)].chat

\* What an operation that ended in context c did, seen from outside
Observe(op, m, bound, c) ==
    [ op |-> op, chat_id |-> m.chat_id, content_type |-> m.content_type,
      text |-> m.text, bound |-> bound,
      had |-> SessionBefore(m.chat_id, bound),
      status_before |-> StatusBefore(m.chat_id, bound),
      history_before |-> HistoryBefore(m.chat_id, bound),
      session |-> c.es, resolved |-> c.resolved, status0 |-> c.status0,
      created |-> c.created, didReset |-> c.didReset,
      nsessions |-> Len(c.sessions) - Len(sessions),
      nparticipants |-> Len(c.participants) - Len(participants),
      touched |-> { i \in 1..Len(c.sessions) :
                        i > Len(sessions) \/ c.sessions[i] # sessions[i] },
      appended |-> c.appended,
      query |-> c.uq,
      sent |-> c.sent, llm |-> c.llm, events |-> c.events, ntrans |-> c.ntrans,
      replies |-> c.replies,
      exc |-> c.exc, ret |-> c.ret ]

WithinBounds(c) ==
    Len(c.sessions) <= (IF callers = OneCaller THEN MaxSessions ELSE MaxSessionsTwo)

Commit(op, m, bound, c) ==
    /\ WithinBounds(c)
    /\ sessions' = c.sessions
    /\ participants' = c.participants
    /\ last' = Observe(op, m, bound, c)
    /\ UNCHANGED <<platform, service, experiment, callers, run, race>>

\* The outcomes of the calls a handling of a message of this content type
\* can make, generation apart: transcription (voice messages only) and voice
\* synthesis (only where a voice reply can be chosen)
Environments(content_type) ==
    [ transcribe : IF content_type = VOICE THEN {"ok", "fail"} ELSE {"ok"},
      llm : {"ok"},
      synth : IF VoiceRepliesSupported /\ experiment.synthetic_voice
              THEN {"ok", "fail"} ELSE {"ok"} ]

\* A handling whose generation succeeds ends in context ok; if it called the
\* pipeline, the generation can also be cancelled or fail
Outcomes(op, m, bound, env, ok) ==
    \/ Commit(op, m, bound, ok)
    \/ /\ ok.llm # <<>>
       /\ \E outcome \in {"cancelled", "error"} :
             Commit(op, m, bound,
                    NewUserMessage(NewHandler(bound), m, [env EXCEPT !.llm = outcome]))

\* Chat identities are interchangeable, so the callers make first contact in
\* a fixed order: u1 before u2
NextChatIds ==
    LET known == { participants[i].identifier : i \in 1..Len(participants) }
    IN callers \cap (known \cup (IF "u1" \notin known THEN {"u1"} ELSE {"u2"}))

\* The statuses sessions are started with from outside message handling: the
\* default and one that is not ACTIVE; for two callers the default
StartStatuses ==
    IF callers = TwoCallers THEN {ACTIVE} ELSE {ACTIVE, SETUP}

\* The platform user a web session is started for: none, one whose email is
\* the identifier, one with another email; for two callers none
PlatformUsers ==
    IF callers = TwoCallers THEN {"none"} ELSE {"none", "same", "other"}

\* The content types a platform's inbound messages can carry; two callers
\* send text only
ContentTypes ==
    IF platform \in {WEB, API, SLACK} \/ callers = TwoCallers
    THEN {TEXT} ELSE {TEXT, VOICE, PHOTO}

\* The texts the callers send; two callers send a greeting or the reset
\* command, and so do the callers of the channels whose handlers never read
\* the text themselves (WebChannel and SlackChannel have no consent reply and
\* no reset), with the consent token for the greeting
InboundTexts ==
    IF callers = TwoCallers THEN {<<"h", "i">>, RESET_COMMAND}
    ELSE IF platform \in {WEB, SLACK} THEN {<<"1">>, RESET_COMMAND}
    ELSE Texts

\* apps/channels/tasks.py: one task per inbound event builds a handler for
\* the channel, without a session, and hands it the message.  Of a message
\* of an unsupported type only the reset check reads the text, so it carries
\* a greeting or the reset command
HandleChannelMessage(chat_id, content_type, text, env) ==
    /\ platform \in {TELEGRAM, WHATSAPP, FACEBOOK, API}
    /\ env.transcribe = "fail" => text = <<"h", "i">>
    /\ LET m == [chat_id |-> chat_id, content_type |-> content_type, text |-> text]
       IN /\ ~IsMessageTypeSupported(m) => text \in {<<"h", "i">>, RESET_COMMAND}
          /\ Outcomes("message", m, 0, env, NewUserMessage(NewHandler(0), m, env))

\* A web or Slack message: the handler is built for a session the caller
\* looked up (bound > 0), or for none
HandleSessionMessage(bound, chat_id, text, env) ==
    /\ platform \in {WEB, SLACK}
    /\ bound \in 0..Len(sessions)
    /\ bound # 0 => chat_id = participants[sessions[bound].participant].identifier
    /\ LET m == [chat_id |-> chat_id, content_type |-> TEXT, text |-> text]
       IN Outcomes("message", m, bound, env, NewUserMessage(NewHandler(bound), m, env))

\* WebChannel.start_new_session / SlackChannel.start_new_session
StartNewSession(identifier, user, session_status) ==
    /\ platform \in {WEB, SLACK}
    /\ platform = SLACK => user = "none" /\ session_status = ACTIVE
    /\ LET c == StartExperimentSession(NewHandler(0), identifier, user, session_status)
       IN Commit("start", [NoMessage EXCEPT !.chat_id = identifier], 0,
                 IF platform = WEB THEN CheckAndProcessSeedMessage(c) ELSE c)

Services ==
    { [supported_message_types |-> {TEXT}, voice_replies_supported |-> FALSE],
      [supported_message_types |-> {TEXT, VOICE}, voice_replies_supported |-> TRUE] }

Experiments ==
    [ conversational_consent_enabled : BOOLEAN,
      pre_survey : BOOLEAN,
      seed_message : BOOLEAN,
      synthetic_voice : {FALSE},
      voice_response_behaviour : {RECIPROCAL} ]

\* A channel of an experiment before any contact.  WhatsApp runs on a
\* messaging service that takes text only, Facebook Messenger on one that also
\* takes and sends voice; the other channels do not read the service.  A
\* setting the channel never reads is left off: the pre-survey where nothing
\* is gated (no consent, web) or no session is ever pending (Slack), the seed
\* message where no conversation is started by consent or by the web form.
InitChannel ==
    /\ platform \in ChannelPlatform
    /\ service \in Services
    /\ service.supported_message_types =
           IF platform = FACEBOOK THEN {TEXT, VOICE} ELSE {TEXT}
    /\ experiment \in Experiments
    /\ ~experiment.conversational_consent_enabled => ~experiment.pre_survey
    /\ platform \in {WEB, SLACK} => ~experiment.pre_survey
    /\ platform = SLACK => ~experiment.seed_message
    /\ (platform # WEB /\ ~experiment.conversational_consent_enabled) =>
           ~experiment.seed_message
    /\ participants = <<>>
    /\ sessions = <<>>
    /\ last = Observe("none", NoMessage, 0, NewHandler(0))
    /\ run = [pc |-> "idle"]
    /\ race = [pc |-> "idle"]

\* One chat identity talks to the channel
Init ==
    /\ callers = OneCaller
    /\ InitChannel

Next ==
    \/ \E chat_id \in NextChatIds, content_type \in ContentTypes, text \in InboundTexts :
          \E env \in Environments(content_type) :
              HandleChannelMessage(chat_id, content_type, text, env)
    \/ \E bound \in 0..Len(sessions), chat_id \in NextChatIds, text \in InboundTexts, env \in Environments(TEXT) :
          HandleSessionMessage(bound, chat_id, text, env)
    \/ \E identifier \in NextChatIds, user \in PlatformUsers, session_status \in StartStatuses :
          StartNewSession(identifier, user, session_status)

Spec == Init /\ [][Next]_vars

\* Two chat identities send text messages to the same channel of an
\* experiment without pre-survey and seed message
InitTwo ==
    /\ callers = TwoCallers
    /\ InitChannel
    /\ ~experiment.pre_survey
    /\ ~experiment.seed_message

SpecTwo == InitTwo /\ [][Next]_vars

\* Experiments with and without a synthetic voice, under each voice response
\* behaviour; the seed message is answered when consent is given
VoiceExperiments ==
    { e \in [ conversational_consent_enabled : BOOLEAN,
              pre_survey : {FALSE},
              seed_message : BOOLEAN,
              synthetic_voice : BOOLEAN,
              voice_response_behaviour : {ALWAYS, RECIPROCAL, NEVER} ] :
        e.seed_message => e.conversational_consent_enabled }

\* A channel whose tasks build the handler, of an experiment with voice
\* settings, before any contact
InitVoice ==
    /\ callers = OneCaller
    /\ platform \in {TELEGRAM, WHATSAPP, FACEBOOK, API}
    /\ service \in Services
    /\ service.supported_message_types =
           IF platform = FACEBOOK THEN {TEXT, VOICE} ELSE {TEXT}
    /\ experiment \in VoiceExperiments
    /\ participants = <<>>
    /\ sessions = <<>>
    /\ last = Observe("none", NoMessage, 0, NewHandler(0))
    /\ run = [pc |-> "idle"]
    /\ race = [pc |-> "idle"]

\* The caller greets or consents, in text, voice or a photo
NextVoice ==
    \E chat_id \in NextChatIds, content_type \in ContentTypes,
       text \in {<<"1">>, <<"h", "i">>} :
        \E env \in Environments(content_type) :
            HandleChannelMessage(chat_id, content_type, text, env)

SpecVoice == InitVoice /\ [][NextVoice]_vars

----------------------------------------------------------------------------
(* The runnables (apps/service_providers/llm_service/runnables.py) *)

\* Chunks a stream yields at most; polls of a run that is being cancelled
MaxTokens == 3
MaxPolls == 1

\* ExperimentRunnable.check_every_ms
check_every_ms == 1000

\* time.time() counts seconds; the clock of the model (run.now) counts
\* milliseconds
MsPerSecond == 1000

\* x seconds on the model's clock
Seconds(x) == x * MsPerSecond

\* range(3) in _get_response_with_retries
Retries == 3

\* The experiment as create_experiment_runnable reads it: whether it
\* references an assistant, has an LLM model and an LLM provider, and has
\* tools enabled
Pipelines ==
    [ assistant : BOOLEAN, llm : BOOLEAN, llm_provider : BOOLEAN,
      tools_enabled : BOOLEAN ]

\* The time between two chunks of a stream: half the check interval, the
\* interval read as milliseconds, the interval read as seconds
Delays ==
    { check_every_ms \div 2, check_every_ms, Seconds(check_every_ms) }

\* The user's input of the invoke
Input == <<"h", "i">>

NoToken == [seen |-> FALSE, index |-> 0, output |-> <<>>, first |-> FALSE,
            since |-> 0, read |-> FALSE, flag |-> FALSE, ret |-> FALSE]

NoResult == [kind |-> "none", exc |-> "none", output |-> <<>>,
             prompt_tokens |-> 0, completion_tokens |-> 0]

\* ChainOutput(output, prompt_tokens, completion_tokens), returned
ChainOutput(output, prompt_tokens, completion_tokens) ==
    [kind |-> "output", exc |-> "none", output |-> output,
     prompt_tokens |-> prompt_tokens, completion_tokens |-> completion_tokens]

\* raise GenerationCancelled(output)
GenerationCancelled(output) ==
    [output EXCEPT !.kind = "cancelled", !.exc = "GenerationCancelled"]

\* raise e
Raises(e) ==
    [NoResult EXCEPT !.kind = "raised", !.exc = e]

\* The session of an invoke as the runnable reads it: the platform of its
\* channel, whether its participant is linked to a platform user, and the
\* participant data stored for the experiment (<<>>: none)
TransportSession == [platform |-> TELEGRAM, user |-> FALSE, data |-> <<>>]

\* A session's chat and a runnable not yet created for it: the chat's
\* history and metadata (cancelled, openai_thread_id) are in storage, the
\* rest are the fields and locals of the runnable (call_thread_id: the
\* thread_id invoke read from the metadata; before: the history when invoke
\* is called; prompt: the messages the model is given; streams: the times
\* the chain was run; sent: the thread id each call of the assistant was
\* given; content: input_dict["content"]; submitted: the content each call
\* of the assistant was given; invokes: the invokes the chat has seen, this
\* one included)
NewRun(e, save_input_to_history, thread_id) ==
    [ pc |-> "new", experiment |-> e, variant |-> "none",
      save_input_to_history |-> save_input_to_history,
      save_output_to_history |-> TRUE, max_token_limit |-> 0,
      session |-> TransportSession,
      history |-> <<>>, before |-> <<>>, memory |-> <<>>, prompt |-> <<>>,
      streams |-> 0, sent |-> <<>>,
      input_formatter |-> FALSE, content |-> <<>>, submitted |-> <<>>,
      metadata_cancelled |-> FALSE, thread_id |-> thread_id,
      call_thread_id |-> "none",
      now |-> 1,
      cancelled |-> FALSE, last_cancel_check |-> 0,
      output |-> <<>>, consumed |-> 0, reads |-> 0, tok |-> NoToken,
      attempts |-> <<>>, cancels |-> <<>>, polls |-> 0,
      invokes |-> 1,
      result |-> NoResult ]

\* create_experiment_runnable that looks at the tools before the assistant
CreateExperimentRunnableToolsFirst(e) ==
    IF e.tools_enabled /\ e.llm /\ e.llm_provider THEN "agent"
    ELSE IF e.assistant THEN "assistant"
    ELSE IF ~e.llm \/ ~e.llm_provider THEN "AssertionError"
    ELSE "simple"

\* create_experiment_runnable: the class of the runnable, or the assertion
\* that fails
CreateExperimentRunnable(e) ==
    IF e.assistant THEN "assistant"
    ELSE IF ~e.llm THEN "AssertionError"
    ELSE IF ~e.llm_provider THEN "AssertionError"
    ELSE IF e.tools_enabled THEN "agent"
    ELSE "simple"

\* _save_message_to_history
SaveMessageToHistory(r, content, type) ==
    [r EXCEPT !.history = Append(@, [type |-> type, content |-> content])]

\* the HUMAN turn saved whatever the caller's config
SaveInputAlways(r) ==
    SaveMessageToHistory(r, Input, HUMAN)

\* the HUMAN turn, saved before generation unless the caller's config has
\* save_input_to_history false
SaveInput(r) ==
    IF r.save_input_to_history THEN SaveMessageToHistory(r, Input, HUMAN) ELSE r

\* the AI turn, saved after generation unless the caller's config has
\* save_output_to_history false
SaveOutput(r) ==
    IF r.save_output_to_history THEN SaveMessageToHistory(r, r.output, AI) ELSE r

\* format_input: experiment.input_formatter ("f {input} b", if there is
\* one) is filled with the value under the input key, which the result
\* replaces
FormatInput(r, value) ==
    IF r.input_formatter THEN <<"f">> \o value \o <<"b">> ELSE value

\* is_unauthorized_participant
IsUnauthorizedParticipant(r) ==
    r.session.platform = WEB /\ ~r.session.user

\* participant_data that is handed out whoever the participant is
ParticipantDataForAll(r) ==
    r.session.data

\* participant_data: "" for an unauthorized participant, otherwise
\* session.get_participant_data(...) or ""
ParticipantData(r) ==
    IF IsUnauthorizedParticipant(r) THEN <<>> ELSE r.session.data

\* The tokens of a list of history entries
RECURSIVE TokensOf(_)
TokensOf(messages) ==
    IF messages = <<>> THEN 0
    ELSE Len(Head(messages).content) + TokensOf(Tail(messages))

\* compress_chat_history(chat, model, max_token_limit): the oldest entries
\* are dropped until the rest is within the budget; a budget of 0 switches
\* it off
RECURSIVE CompressChatHistory(_, _)
CompressChatHistory(messages, max_token_limit) ==
    IF max_token_limit = 0 \/ TokensOf(messages) <= max_token_limit THEN messages
    ELSE CompressChatHistory(Tail(messages), max_token_limit)

\* _populate_memory
PopulateMemory(r) ==
    [r EXCEPT !.memory = CompressChatHistory(r.history, r.max_token_limit)]

\* prompt_text.format(participant_data = ...), instructions.format(...): the
\* text "p" with the placeholder at its end
FormatPrompt(participant_data) ==
    <<"p">> \o participant_data

\* ExperimentRunnable.prompt filled in by the chain: the system message, the
\* history placeholder (the memory), the human input
Prompt(r) ==
    <<[type |-> SYSTEM, content |-> FormatPrompt(ParticipantData(r))]>>
        \o r.memory \o <<[type |-> HUMAN, content |-> FormatInput(r, Input)]>>

\* input_dict of AssistantExperimentRunnable.invoke: the instructions that
\* override the assistant's, and the content
InputDict(r) ==
    <<[type |-> SYSTEM, content |-> FormatPrompt(ParticipantData(r))],
      [type |-> HUMAN, content |-> Input]>>

\* ExperimentRunnable.invoke that saves the input before it loads the history
InvokeBeginSavesFirst(r) ==
    PopulateMemory(SaveInput(r))

\* ExperimentRunnable.invoke up to _get_output_check_cancellation
InvokeBegin(r) ==
    SaveInput(PopulateMemory(r))

\* chain.stream(input, config): the chain is built and given the prompt
Stream(r) ==
    [r EXCEPT !.pc = "streaming", !.streams = @ + 1, !.prompt = Prompt(r)]

\* The chunks a chain streams: the simple chain yields strings, the agent
\* executor yields dicts, with or without an "output" key (here: the one key
\* that matters and its value)
Chunks(variant) ==
    IF variant = "agent"
    THEN { [key |-> "output", val |-> <<"a">>], [key |-> "steps", val |-> <<"s">>] }
    ELSE { <<"a">> }

\* _parse_output: SimpleExperimentRunnable returns the chunk,
\* AgentExperimentRunnable returns output.get("output", "")
ParseOutput(variant, chunk) ==
    IF variant = "agent"
    THEN (IF chunk.key = "output" THEN chunk.val ELSE <<>>)
    ELSE chunk

\* What _chat_is_cancelled did at the chunk: which chunk it was and the
\* output with it, whether a check had been made before and how long ago,
\* whether storage was read, the flag in storage then, and what it returned
Checked(r, read, ret) ==
    [r EXCEPT !.tok = [seen |-> TRUE, index |-> r.consumed, output |-> r.output,
                       first |-> r.last_cancel_check = 0,
                       since |-> r.now - r.last_cancel_check, read |-> read,
                       flag |-> r.metadata_cancelled, ret |-> ret]]

\* _chat_is_cancelled from self.last_cancel_check = time.time() on: the
\* session's chat is read again from storage
RefreshFromDb(r) ==
    [Checked(r, TRUE, r.metadata_cancelled)
        EXCEPT !.last_cancel_check = r.now, !.reads = @ + 1,
               !.cancelled = r.metadata_cancelled]

\* _chat_is_cancelled: last_cancel_check and time.time() are seconds, and
\* check_every_ms is added to them as it is
ChatIsCancelled(r) ==
    IF r.cancelled THEN Checked(r, FALSE, TRUE)
    ELSE IF /\ r.last_cancel_check # 0 /\ check_every_ms # 0
            /\ r.last_cancel_check + Seconds(check_every_ms) > r.now
         THEN Checked(r, FALSE, FALSE)
         ELSE RefreshFromDb(r)

\* The callback handler's counts: the tokens of the prompt and the chunks
\* the model produced
CallbackPromptTokens(r) == Len(Input)
CallbackCompletionTokens(r) == r.consumed

\* an invoke that takes the flag back once it has obeyed it
InvokeEndClearsFlag(r) ==
    IF r.cancelled
    THEN [r EXCEPT !.pc = "done", !.metadata_cancelled = FALSE,
                   !.result = GenerationCancelled(
                                  ChainOutput(r.output, CallbackPromptTokens(r),
                                              CallbackCompletionTokens(r)))]
    ELSE [SaveOutput(r)
             EXCEPT !.pc = "done",
                    !.result = ChainOutput(r.output, CallbackPromptTokens(r),
                                           CallbackCompletionTokens(r))]

\* ExperimentRunnable.invoke, once _get_output_check_cancellation returned
InvokeEnd(r) ==
    IF r.cancelled
    THEN [r EXCEPT !.pc = "done",
                   !.result = GenerationCancelled(
                                  ChainOutput(r.output, CallbackPromptTokens(r),
                                              CallbackCompletionTokens(r)))]
    ELSE [SaveOutput(r)
             EXCEPT !.pc = "done",
                    !.result = ChainOutput(r.output, CallbackPromptTokens(r),
                                           CallbackCompletionTokens(r))]

\* the loop of _get_output_check_cancellation that goes on after a check
\* returned true
AfterCheckGoesOn(r) ==
    r

\* the loop of _get_output_check_cancellation after _chat_is_cancelled: it
\* returns the output so far if the chat is cancelled
AfterCheck(r) ==
    IF r.tok.ret THEN InvokeEnd(r) ELSE r

\* one round of the loop: a chunk arrives, is parsed and added to the output
Consume(r, chunk, delay) ==
    [r EXCEPT !.now = @ + delay, !.consumed = @ + 1,
              !.output = @ \o ParseOutput(r.variant, chunk)]

----------------------------------------------------------------------------
(* AssistantExperimentRunnable *)

\* What assistant_runnable.invoke can end in: a response (with the thread it
\* ran in), openai.BadRequestError saying that a thread has an active run,
\* openai.BadRequestError saying something else, ValueError saying that the
\* run was cancelled, any other ValueError, any other exception
ProviderOutcomes ==
    { [kind |-> "response", thread |-> "thread_a", run |-> "none"],
      [kind |-> "response", thread |-> "thread_b", run |-> "none"],
      [kind |-> "thread_busy", thread |-> "thread_a", run |-> "run_1"],
      [kind |-> "thread_busy", thread |-> "thread_b", run |-> "run_2"],
      [kind |-> "bad_request", thread |-> "none", run |-> "none"],
      [kind |-> "value_cancelled", thread |-> "none", run |-> "none"],
      [kind |-> "value_error", thread |-> "none", run |-> "none"],
      [kind |-> "api_error", thread |-> "none", run |-> "none"] }

\* the exception an outcome raises
ExceptionOf(o) ==
    CASE o.kind \in {"thread_busy", "bad_request"} -> "BadRequestError"
      [] o.kind \in {"value_cancelled", "value_error"} -> "ValueError"
      [] OTHER -> "APIError"

\* raise out of invoke
RaiseOut(r, result) ==
    [r EXCEPT !.pc = "done", !.result = result]

\* _cancel_run that leaves the run alone
CancelRunSkipped(r, thread_id, run_id, polls) ==
    r

\* _cancel_run: the run is cancelled, then retrieved while its status is
\* "cancelling"
CancelRun(r, thread_id, run_id, polls) ==
    [r EXCEPT !.cancels = Append(@, [thread |-> thread_id, run |-> run_id]),
              !.polls = @ + polls]

\* _handle_api_error that cancels the run whatever thread it is in
HandleApiErrorAnyThread(r, o, polls) ==
    IF o.kind # "thread_busy" THEN RaiseOut(r, Raises(ExceptionOf(o)))
    ELSE CancelRun(r, r.call_thread_id, o.run, polls)

\* _handle_api_error: the message is matched against "<thread> while a run
\* <run> is active"
HandleApiError(r, o, polls) ==
    IF o.kind # "thread_busy" THEN RaiseOut(r, Raises(ExceptionOf(o)))
    ELSE IF o.thread # r.call_thread_id THEN RaiseOut(r, Raises("GenerationError"))
    ELSE CancelRun(r, r.call_thread_id, o.run, polls)

\* chat.get_metadata(OPENAI_THREAD_ID) that finds nothing
OpenAiThreadIdForgotten(r) ==
    "none"

\* chat.get_metadata(OPENAI_THREAD_ID)
OpenAiThreadId(r) ==
    r.thread_id

\* AssistantExperimentRunnable.invoke up to _get_response_with_retries
AssistantInvokeBegin(r) ==
    [SaveInput(r) EXCEPT !.pc = "assistant", !.call_thread_id = OpenAiThreadId(r),
                         !.prompt = InputDict(r), !.content = Input]

\* an attempt that saves the HUMAN turn itself, once per round of the loop
SubmitSavingInput(r) ==
    [SaveInput(r) EXCEPT !.content = FormatInput(r, r.content),
                         !.submitted = Append(@, FormatInput(r, r.content)),
                         !.sent = Append(@, r.call_thread_id)]

\* assistant_runnable.invoke(input_dict, config), up to the provider:
\* format_input writes the formatted content back into input_dict, the dict
\* every attempt is given
Submit(r) ==
    [r EXCEPT !.content = FormatInput(r, r.content),
              !.submitted = Append(@, FormatInput(r, r.content)),
              !.sent = Append(@, r.call_thread_id)]

\* AssistantExperimentRunnable.invoke, once _get_response_with_retries
\* returned the response: the AI turn is saved whatever the caller's config
AssistantInvokeEnd(r, o) ==
    [SaveMessageToHistory(r, <<"a">>, AI)
        EXCEPT !.pc = "done",
               !.thread_id = IF r.call_thread_id = "none" THEN o.thread ELSE @,
               !.output = <<"a">>,
               !.result = ChainOutput(<<"a">>, 0, 0)]

\* the end of a round of the loop of _get_response_with_retries that neither
\* returned nor raised: the next round, or the error after the last
NextRound(r) ==
    IF r.pc = "done" THEN r
    ELSE IF Len(r.attempts) = Retries THEN RaiseOut(r, Raises("GenerationError"))
    ELSE r

\* the except clause for ValueError that lets every ValueError pass
OnValueErrorSwallowed(r, o) ==
    r

\* the except clause for ValueError: re.search("cancelling|cancelled", str(e))
OnValueError(r, o) ==
    IF o.kind = "value_cancelled"
    THEN RaiseOut(r, GenerationCancelled(ChainOutput(<<>>, 0, 0)))
    ELSE r

\* one round of the loop of _get_response_with_retries, given what the
\* provider's invoke ended in
Round(r, o, polls) ==
    CASE o.kind = "response" -> AssistantInvokeEnd(r, o)
      [] o.kind \in {"thread_busy", "bad_request"} -> NextRound(HandleApiError(r, o, polls))
      [] o.kind \in {"value_cancelled", "value_error"} -> NextRound(OnValueError(r, o))
      [] OTHER -> RaiseOut(r, Raises(ExceptionOf(o)))

----------------------------------------------------------------------------
(* One invoke, step by step *)

\* create_experiment_runnable(experiment, session)
CreateRunnable ==
    /\ run.pc = "new"
    /\ LET made == CreateExperimentRunnable(run.experiment)
       IN run' = IF made = "AssertionError"
                 THEN RaiseOut(run, Raises("AssertionError"))
                 ELSE [run EXCEPT !.pc = "created", !.variant = made]
    /\ UNCHANGED <<channel, race>>

\* ExperimentRunnable.invoke up to the first chunk of the stream
BeginStream ==
    /\ run.pc = "created"
    /\ run.variant \in {"simple", "agent"}
    /\ run' = Stream(InvokeBegin(run))
    /\ UNCHANGED <<channel, race>>

\* one round of the loop of _get_output_check_cancellation
StreamToken(chunk, delay) ==
    /\ run.pc = "streaming"
    /\ run.consumed < MaxTokens
    /\ run' = AfterCheck(ChatIsCancelled(Consume(run, chunk, delay)))
    /\ UNCHANGED <<channel, race>>

\* the stream ends
StreamExhausted ==
    /\ run.pc = "streaming"
    /\ run' = InvokeEnd(run)
    /\ UNCHANGED <<channel, race>>

\* someone cancels the chat: chat.metadata["cancelled"] is set in storage
CancelChat ==
    /\ run.pc = "streaming"
    /\ ~run.metadata_cancelled
    /\ run' = [run EXCEPT !.metadata_cancelled = TRUE]
    /\ UNCHANGED <<channel, race>>

\* AssistantExperimentRunnable.invoke up to _get_response_with_retries
BeginAssistant ==
    /\ run.pc = "created"
    /\ run.variant = "assistant"
    /\ run' = AssistantInvokeBegin(run)
    /\ UNCHANGED <<channel, race>>

\* one round of the loop of _get_response_with_retries and what follows it;
\* a response comes from the thread the call was given, or from a new one
AssistantAttempt(o, polls) ==
    /\ run.pc = "assistant"
    /\ Len(run.attempts) < Retries
    /\ o.kind # "thread_busy" => polls = 0
    /\ (o.kind = "response" /\ run.call_thread_id # "none") => o.thread = run.call_thread_id
    /\ run' = Round([Submit(run) EXCEPT !.attempts = Append(@, o)], o, polls)
    /\ UNCHANGED <<channel, race>>

\* The channel at rest while the runnable or the store is looked at
ChannelAtRest ==
    /\ platform = TELEGRAM
    /\ service = [supported_message_types |-> {TEXT}, voice_replies_supported |-> FALSE]
    /\ experiment = [conversational_consent_enabled |-> FALSE, pre_survey |-> FALSE,
                     seed_message |-> FALSE, synthetic_voice |-> FALSE,
                     voice_response_behaviour |-> RECIPROCAL]
    /\ callers = OneCaller
    /\ participants = <<>>
    /\ sessions = <<>>
    /\ last = Observe("none", NoMessage, 0, NewHandler(0))

\* A runnable is about to be created for an experiment and invoked once; the
\* chat has an assistant thread already or not
InitInvoke ==
    /\ ChannelAtRest
    /\ race = [pc |-> "idle"]
    /\ \E e \in Pipelines, save_input_to_history \in BOOLEAN,
          save_output_to_history \in BOOLEAN, input_formatter \in BOOLEAN,
          thread_id \in {"none", "thread_a"} :
          /\ ~e.assistant => thread_id = "none"
          /\ run = [NewRun(e, save_input_to_history, thread_id)
                       EXCEPT !.save_output_to_history = save_output_to_history,
                              !.input_formatter = input_formatter]

NextInvoke ==
    \/ CreateRunnable
    \/ BeginStream
    \/ \E chunk \in Chunks(run.variant), delay \in Delays : StreamToken(chunk, delay)
    \/ StreamExhausted
    \/ CancelChat
    \/ BeginAssistant
    \/ \E o \in ProviderOutcomes, polls \in 0..MaxPolls : AssistantAttempt(o, polls)

SpecInvoke == InitInvoke /\ [][NextInvoke]_vars

\* Invokes a chat sees at most
MaxInvokes == 2

\* The next message of a chat whose generation was cancelled: a runnable is
\* created for the same experiment and session and invoked; the chat keeps
\* its history and its metadata
InvokeAgain ==
    /\ run.pc = "done"
    /\ run.result.kind = "cancelled"
    /\ run.metadata_cancelled
    /\ run.invokes < MaxInvokes
    /\ run' = [NewRun(run.experiment, run.save_input_to_history, run.thread_id)
                  EXCEPT !.save_output_to_history = run.save_output_to_history,
                         !.input_formatter = run.input_formatter,
                         !.history = run.history, !.before = run.history,
                         !.metadata_cancelled = run.metadata_cancelled,
                         !.invokes = run.invokes + 1]
    /\ UNCHANGED <<channel, race>>

NextCancel ==
    \/ NextInvoke
    \/ InvokeAgain

SpecCancel == InitInvoke /\ [][NextCancel]_vars

\* Entries a chat has at most before the invoke
MaxPrior == 2

\* The k-th entry of an earlier conversation: the user's turns have two
\* tokens, the bot's one
EarlierEntry(k) ==
    IF k % 2 = 1 THEN [type |-> HUMAN, content |-> <<"y", "o">>]
    ELSE [type |-> AI, content |-> <<"o">>]

\* The histories a chat can have before the invoke
Histories ==
    { [k \in 1..n |-> EarlierEntry(k)] : n \in 0..MaxPrior }

\* experiment.max_token_limit: no compression, or a budget the longest
\* history exceeds
TokenLimits == {0, 2}

\* The sessions a runnable is invoked for: on the web or on a transport, with
\* or without a linked user, with no or some participant data
Sessions ==
    [ platform : {WEB, TELEGRAM}, user : BOOLEAN, data : {<<>>, <<"d">>, <<"e">>} ]

\* One experiment for each runnable
PromptPipelines ==
    { e \in Pipelines : (e.assistant => ~e.llm /\ ~e.llm_provider /\ ~e.tools_enabled)
                         /\ (~e.assistant => e.llm /\ e.llm_provider) }

\* A runnable is about to be created and invoked once with the default
\* options, for a session of some channel and participant whose chat has a
\* history
InitPrompt ==
    /\ ChannelAtRest
    /\ race = [pc |-> "idle"]
    /\ \E e \in PromptPipelines, session \in Sessions, history \in Histories,
          max_token_limit \in TokenLimits :
          run = [NewRun(e, TRUE, "none")
                    EXCEPT !.session = session, !.history = history,
                           !.before = history, !.max_token_limit = max_token_limit]

SpecPrompt == InitPrompt /\ [][NextInvoke]_vars

----------------------------------------------------------------------------
(* Concurrent session creation *)

\* Session creations that run at the same time
MaxWorkers == 2

Workers == 1..MaxWorkers

\* A creation is _start_experiment_session (called by start_new_session of
\* the web and Slack channels) or _ensure_sessions_exists with
\* _create_new_experiment_session (the first message on the other channels)
Creations == {"start", "message"}

\* The worker of a creation about to begin: where it is, the Participant it
\* holds, the session it goes on with, the sessions of its identifier that
\* were there when it looked (-1: it did not look), the exception it ended
\* with
NewWorker(op, identifier) ==
    [ op |-> op, identifier |-> identifier,
      pc |-> IF op = "start" THEN "get" ELSE "find",
      participant |-> 0, session |-> 0, saw |-> -1, exc |-> "none" ]

\* The rows a worker's queries see: the committed ones (by = 0) and those of
\* its own open transaction
Sees(w, row) ==
    row.by \in {0, w}

\* Participant.objects.get(team=..., identifier=...) as worker w sees the
\* table (0: DoesNotExist)
GetParticipant(w, identifier) ==
    LET rows == race.participants
        mine == { i \in 1..Len(rows) :
                      Sees(w, rows[i]) /\ rows[i].identifier = identifier }
    IN IF mine = {} THEN 0 ELSE CHOOSE i \in mine : \A j \in mine : i <= j

\* A table without the unique constraint
NoConflict(identifier, w) ==
    "none"

\* The unique constraint of Participant on (team, identifier), as an INSERT
\* of worker w meets it: a committed row with the identifier is a violation,
\* a row of another open transaction makes the INSERT wait
Conflict(identifier, w) ==
    LET rows == race.participants
    IN IF \E i \in 1..Len(rows) :
              rows[i].identifier = identifier /\ rows[i].by \notin {0, w}
       THEN "wait"
       ELSE IF \E i \in 1..Len(rows) : rows[i].identifier = identifier
            THEN "IntegrityError"
            ELSE "none"

\* the end of a transaction: its rows are committed (by = 0) or gone
Committed(rows, w) ==
    [ i \in 1..Len(rows) |-> IF rows[i].by = w THEN [rows[i] EXCEPT !.by = 0]
                             ELSE rows[i] ]

RolledBack(rows, w) ==
    SelectSeq(rows, LAMBDA row : row.by # w)

\* The transaction worker w writes in: its own (transaction.atomic() in
\* _start_experiment_session) or none (each statement commits)
Transaction(w) ==
    IF race.workers[w].op = "start" THEN w ELSE 0

\* The sessions whose participant has the identifier
RowsOf(identifier) ==
    { i \in 1..Len(race.sessions) :
          race.participants[race.sessions[i].participant].identifier = identifier }

\* a handler that does not look for a session
LatestSessionSeenNever(w) ==
    0

\* ExperimentSession.objects.filter(experiment=..., participant__identifier=
\* ...).order_by("-created_at").first() as worker w sees the table (0: None)
LatestSessionSeen(w) ==
    LET mine == { i \in RowsOf(race.workers[w].identifier) : Sees(w, race.sessions[i]) }
    IN IF mine = {} THEN 0 ELSE CHOOSE i \in mine : \A k \in mine : k <= i

\* the session query of _ensure_sessions_exists: a session that is found is
\* the handler's and no session is created
FindSession(w) ==
    /\ race.workers[w].pc = "find"
    /\ LET me == race.workers[w]
           found == LatestSessionSeen(w)
       IN race' = [race EXCEPT !.workers[w].pc = IF found # 0 THEN "done" ELSE "get",
                               !.workers[w].session = found,
                               !.workers[w].saw = Cardinality(RowsOf(me.identifier))]
    /\ UNCHANGED <<channel, run>>

\* Participant.objects.get of _start_experiment_session, and the get of
\* Participant.objects.get_or_create of _create_new_experiment_session
GetStep(w) ==
    /\ race.workers[w].pc = "get"
    /\ LET me == race.workers[w]
           found == GetParticipant(w, me.identifier)
       IN race' = [race EXCEPT !.workers[w].participant = found,
                               !.workers[w].pc = IF found = 0 THEN "create"
                                                 ELSE "session"]
    /\ UNCHANGED <<channel, run>>

\* Participant.objects.create of _start_experiment_session, whose
\* IntegrityError ends the transaction and the call, and the create of
\* get_or_create, whose IntegrityError get_or_create answers with another get
CreateStep(w) ==
    /\ race.workers[w].pc = "create"
    /\ LET me == race.workers[w]
           met == Conflict(me.identifier, w)
       IN /\ met # "wait"
          /\ race' =
               IF met = "none"
               THEN [race EXCEPT
                       !.participants = Append(@, [identifier |-> me.identifier,
                                                   by |-> Transaction(w)]),
                       !.workers[w].participant = Len(race.participants) + 1,
                       !.workers[w].pc = "session"]
               ELSE IF me.op = "start"
               THEN [race EXCEPT
                       !.participants = RolledBack(@, w),
                       !.sessions = RolledBack(@, w),
                       !.workers[w].exc = met,
                       !.workers[w].pc = "failed"]
               ELSE [race EXCEPT !.workers[w].pc = "get"]
    /\ UNCHANGED <<channel, run>>

\* ExperimentSession.objects.create(participant=...), and with it the end of
\* the transaction of _start_experiment_session
SessionStep(w) ==
    /\ race.workers[w].pc = "session"
    /\ LET me == race.workers[w]
       IN race' = [race EXCEPT
                     !.sessions = Committed(
                         Append(@, [participant |-> me.participant, by |-> Transaction(w)]), w),
                     !.participants = Committed(@, w),
                     !.workers[w].session = Len(race.sessions) + 1,
                     !.workers[w].pc = "done"]
    /\ UNCHANGED <<channel, run>>

\* Creations for chat identities of one team begin at the same time on empty
\* tables
InitRace ==
    /\ ChannelAtRest
    /\ run = [pc |-> "idle"]
    /\ \E ws \in [Workers -> [op : Creations, identifier : TwoCallers]] :
          race = [ pc |-> "racing", participants |-> <<>>, sessions |-> <<>>,
                   workers |-> [ w \in Workers |->
                                   NewWorker(ws[w].op, ws[w].identifier) ] ]

NextRace ==
    \/ \E w \in Workers : FindSession(w)
    \/ \E w \in Workers : GetStep(w)
    \/ \E w \in Workers : CreateStep(w)
    \/ \E w \in Workers : SessionStep(w)

SpecRace == InitRace /\ [][NextRace]_vars

----------------------------------------------------------------------------
(* Sessions of a team's participants in more than one experiment *)

\* Sessions the tables hold at most
MaxRows == 3

\* The experiments of the team
TeamExperiments == {"exp_a", "exp_b"}

\* The sessions of experiment e whose participant has the identifier:
\* ExperimentSession.objects.filter(experiment=..., participant__identifier=...)
SessionsIn(j, e, identifier) ==
    { i \in 1..Len(j.sessions) :
          /\ j.sessions[i].experiment = e
          /\ j.participants[j.sessions[i].participant] = identifier }

\* participant.experimentsession_set.count(): the sessions that refer to the
\* participant, whatever their experiment
ExperimentSessionSetCount(j, participant) ==
    Cardinality({ i \in 1..Len(j.sessions) : j.sessions[i].participant = participant })

\* Participant.objects.get(team=..., identifier=...) and create, or
\* get_or_create: the tables with the team's participant of the identifier
WithParticipant(j, identifier) ==
    IF \E p \in 1..Len(j.participants) : j.participants[p] = identifier
    THEN j
    ELSE [j EXCEPT !.participants = Append(@, identifier)]

\* the participant of the identifier
ParticipantOf(j, identifier) ==
    CHOOSE p \in 1..Len(j.participants) : j.participants[p] = identifier

\* enqueue_static_triggers.delay(session.id, type) for the session just made
Enqueued(j, type) ==
    [j EXCEPT !.events = Append(@, [type |-> type, session |-> Len(j.sessions)])]

\* ExperimentSession.objects.create(experiment=..., participant=...)
SessionCreated(j, e, participant) ==
    [j EXCEPT !.sessions = Append(@, [experiment |-> e, participant |-> participant,
                                      ended |-> FALSE])]

\* _start_experiment_session
StartedSession(j, e, identifier) ==
    LET j1 == WithParticipant(j, identifier)
        participant == ParticipantOf(j1, identifier)
        j2 == SessionCreated(j1, e, participant)
        j3 == IF ExperimentSessionSetCount(j2, participant) = 1
              THEN Enqueued(j2, "participant_joined")
              ELSE j2
    IN Enqueued(j3, "conversation_start")

\* _create_new_experiment_session
NewExperimentSession(j, e, identifier) ==
    LET j1 == WithParticipant(j, identifier)
    IN Enqueued(SessionCreated(j1, e, ParticipantOf(j1, identifier)), "conversation_start")

\* the latest session found: .order_by("-created_at").first()
LatestIn(j, e, identifier) ==
    CHOOSE i \in SessionsIn(j, e, identifier) :
        \A k \in SessionsIn(j, e, identifier) : k <= i

\* _ensure_sessions_exists; reset: the message is the reset command and the
\* user had engaged with the session found
EnsuredSession(j, e, identifier, reset) ==
    IF SessionsIn(j, e, identifier) = {}
    THEN Enqueued(NewExperimentSession(j, e, identifier), "participant_joined")
    ELSE IF reset
         THEN NewExperimentSession(
                  [j EXCEPT !.sessions[LatestIn(j, e, identifier)].ended = TRUE],
                  e, identifier)
         ELSE j

\* start_new_session of a web, Slack or API channel of experiment e
StartFor(e, identifier) ==
    /\ Len(race.sessions) < MaxRows
    /\ race' = StartedSession(race, e, identifier)
    /\ UNCHANGED <<channel, run>>

\* a message to a channel of experiment e that finds its session by the chat
\* identity
MessageFor(e, identifier, reset) ==
    /\ Len(race.sessions) < MaxRows
    /\ race' = EnsuredSession(race, e, identifier, reset)
    /\ UNCHANGED <<channel, run>>

\* The channels of the experiments of a team, one operation at a time, on
\* empty tables
InitTeam ==
    /\ ChannelAtRest
    /\ run = [pc |-> "idle"]
    /\ race = [pc |-> "team", participants |-> <<>>, sessions |-> <<>>, events |-> <<>>]

NextTeam ==
    \/ \E e \in TeamExperiments, identifier \in TwoCallers : StartFor(e, identifier)
    \/ \E e \in TeamExperiments, identifier \in TwoCallers, reset \in BOOLEAN :
          MessageFor(e, identifier, reset)

SpecTeam == InitTeam /\ [][NextTeam]_vars

----------------------------------------------------------------------------
(* _cancel_run, step by step *)

\* Times a provider that settles reports "cancelling" at most
MaxCancelling == 3

\* The statuses of a run other than "cancelling" that a cancel or a retrieve
\* may report
SettledStatuses == {"cancelled", "completed", "failed", "expired"}

\* assistant.check_every_ms
PollIntervals == {0, 1000}

\* run.status == "cancelling" but for a run that is "cancelled"
StillCancellingUnlessCancelled(status) ==
    status # "cancelled"

\* cancelling = run.status == "cancelling"
StillCancelling(status) ==
    status = "cancelling"

\* What the provider may report now: one that never settles says
\* "cancelling" every time, one that settles says it a bounded number of
\* times
Reports(p) ==
    IF p.provider = "never" THEN {"cancelling"}
    ELSE IF p.reports < MaxCancelling THEN SettledStatuses \cup {"cancelling"}
    ELSE SettledStatuses

\* the counter, which stops counting where the states would have no end
Counted(n) ==
    IF n > MaxCancelling THEN n ELSE n + 1

\* _cancel_run is called for a run of a thread
NewCancel(provider, thread_id, run_id, interval) ==
    [ pc |-> "cancel", provider |-> provider, thread_id |-> thread_id,
      run_id |-> run_id, check_every_ms |-> interval,
      first |-> "none", status |-> "none", reports |-> 0,
      polls |-> 0, sleeps |-> 0, slept |-> 0, asked |-> {} ]

\* assistant.client.beta.threads.runs.cancel(thread_id=..., run_id=...)
CancelCall(status) ==
    /\ run.pc = "cancel"
    /\ status \in Reports(run)
    /\ run' = [run EXCEPT !.first = status, !.status = status,
                          !.reports = Counted(@),
                          !.asked = @ \cup {<<run.thread_id, run.run_id>>},
                          !.pc = IF StillCancelling(status) THEN "retrieve"
                                 ELSE "returned"]
    /\ UNCHANGED <<channel, race>>

\* a round of the loop: runs.retrieve(run_id, thread_id=thread_id)
Retrieve(status) ==
    /\ run.pc = "retrieve"
    /\ status \in Reports(run)
    /\ run' = [run EXCEPT !.status = status, !.reports = Counted(@),
                          !.polls = Counted(@),
                          !.asked = @ \cup {<<run.thread_id, run.run_id>>},
                          !.pc = IF StillCancelling(status) THEN "sleep"
                                 ELSE "returned"]
    /\ UNCHANGED <<channel, race>>

\* the end of the round: sleep(assistant.check_every_ms / 1000)
Sleep ==
    /\ run.pc = "sleep"
    /\ run' = [run EXCEPT !.sleeps = Counted(@),
                          !.slept = IF run.sleeps > MaxCancelling THEN @
                                    ELSE @ + run.check_every_ms,
                          !.pc = "retrieve"]
    /\ UNCHANGED <<channel, race>>

\* A run of a thread is about to be cancelled, at a provider that settles
\* or at one that never does
InitPoll ==
    /\ ChannelAtRest
    /\ race = [pc |-> "idle"]
    /\ \E provider \in {"settles", "never"}, thread_id \in {"thread_a", "thread_b"},
          run_id \in {"run_1", "run_2"}, interval \in PollIntervals :
          run = NewCancel(provider, thread_id, run_id, interval)

NextPoll ==
    \/ \E status \in SettledStatuses \cup {"cancelling"} : CancelCall(status)
    \/ \E status \in SettledStatuses \cup {"cancelling"} : Retrieve(status)
    \/ Sleep

SpecPoll == InitPoll /\ [][NextPoll]_vars

\* The worker that runs _cancel_run goes on as long as it can
SpecPollLive == SpecPoll /\ WF_vars(NextPoll)

----------------------------------------------------------------------------
(* Vocabulary of the properties *)

\* The inbound message of the last operation
LastMessage ==
    [chat_id |-> last.chat_id, content_type |-> last.content_type, text |-> last.text]

\* The last operation handled an inbound message, with a handler that was
\* given the session WebChannel and SlackChannel require
Handled ==
    /\ last.op = "message"
    /\ platform \in {WEB, SLACK} => last.bound # 0

\* The handling obtained the user's text (a voice message was transcribed)
TextExtracted ==
    ~last.query.none

\* The message is the reset command
IsReset ==
    TextExtracted /\ last.query.val = RESET_COMMAND

\* A supported message whose text is the reset command
ResetCommand ==
    /\ Handled
    /\ IsMessageTypeSupported(LastMessage)
    /\ IsReset

\* A supported message with a text that is not the reset command
OrdinaryMessage ==
    /\ Handled
    /\ IsMessageTypeSupported(LastMessage)
    /\ TextExtracted
    /\ ~IsReset

\* Consent gating applies to the channel
ConsentGated ==
    platform # WEB /\ experiment.conversational_consent_enabled

\* The channels with a send_text_to_user of their own
PushesTexts ==
    platform \in {TELEGRAM, WHATSAPP, FACEBOOK, SLACK}

\* The channels whose handler finds the session by chat identity
FindsSession ==
    platform \in {TELEGRAM, WHATSAPP, FACEBOOK, API}

\* The channels that do both
PushChannel ==
    PushesTexts /\ FindsSession

\* The user was sent the text
Delivered(body) ==
    \E i \in 1..Len(last.sent) : last.sent[i].body = body

\* How often the user was sent the text
Deliveries(body) ==
    Cardinality({ i \in 1..Len(last.sent) : last.sent[i].body = body })

\* The pipeline was given the user's text as a user turn
UserTurnToLlm ==
    \E i \in 1..Len(last.llm) : last.llm[i].kind = "user"

\* The status of the session that handled the message, after the handling
StatusAfter ==
    sessions[last.session].status

\* The text is "1" with nothing but blanks around it
IsOneAmongBlanks(text) ==
    \E i \in 1..Len(text) :
        /\ text[i] = "1"
        /\ \A j \in 1..Len(text) : j # i => text[j] = " "

----------------------------------------------------------------------------
(* First contact under consent gating *)

\* What the first message brings about: the session that handled it is
\* PENDING (and new if the identity had none), the consent request was
\* delivered, the pipeline did not get the user's text
AskedForConsent ==
    /\ last.session # 0
    /\ StatusAfter = PENDING
    /\ last.had = 0 => last.created /\ last.nsessions = 1
    /\ Delivered("consent")
    /\ ~UserTurnToLlm

\* The first ordinary message of an identity: it has no session, or none
\* with a history
FirstOrdinaryMessage ==
    OrdinaryMessage /\ last.history_before = {}

\* C1: on Telegram, WhatsApp and Facebook Messenger with conversational
\* consent enabled, the first supported non-reset message of a chat identity,
\* whatever its text, ends with the identity's session in status PENDING
\* (created by the message if there was none), a consent request delivered
\* and no user text given to the pipeline.
C1_FirstMessageAsksForConsent ==
    (PushChannel /\ ConsentGated /\ FirstOrdinaryMessage) => AskedForConsent

\* C1, witness: a first message "1" that created a PENDING session
C1_Witness ==
    /\ PushChannel /\ ConsentGated /\ FirstOrdinaryMessage
    /\ last.text = USER_CONSENT_TEXT
    /\ last.had = 0
    /\ AskedForConsent

\* C1 as stated, on the channels other than web that push texts to the user
C1_OnEveryPushingChannel ==
    (PushesTexts /\ ConsentGated /\ FirstOrdinaryMessage) => AskedForConsent

----------------------------------------------------------------------------
(* Consent with a pre-survey *)

\* C2: on Telegram, WhatsApp and Facebook Messenger, with consent gating
\* active and a pre-survey configured, for a supported non-reset reply: "1"
\* (blanks around it ignored) while PENDING sets the status to
\* PENDING_PRE_SURVEY and sends the survey link; any other text while
\* PENDING_PRE_SURVEY sends the survey link again and leaves the status;
\* "1" (blanks ignored) while PENDING_PRE_SURVEY sets the status to ACTIVE.
C2_SurveyFlow ==
    (PushChannel /\ ConsentGated /\ experiment.pre_survey /\ OrdinaryMessage) =>
        /\ (last.status0 = PENDING /\ IsOneAmongBlanks(last.query.val)) =>
                StatusAfter = PENDING_PRE_SURVEY /\ Deliveries("survey") = 1
        /\ (last.status0 = PENDING_PRE_SURVEY /\ ~IsOneAmongBlanks(last.query.val)) =>
                StatusAfter = PENDING_PRE_SURVEY /\ Deliveries("survey") = 1
        /\ (last.status0 = PENDING_PRE_SURVEY /\ IsOneAmongBlanks(last.query.val)) =>
                StatusAfter = ACTIVE

\* C2, witness: " 1" while PENDING_PRE_SURVEY made the session ACTIVE
C2_Witness ==
    /\ PushChannel /\ ConsentGated /\ experiment.pre_survey /\ OrdinaryMessage
    /\ last.status0 = PENDING_PRE_SURVEY
    /\ last.query.val = <<" ", "1">>
    /\ StatusAfter = ACTIVE

\* C2 as stated, on the channels that push texts: the reply counts as "1"
\* only as typed
C2_OnlyOneAsTyped ==
    (PushChannel /\ ConsentGated /\ experiment.pre_survey /\ OrdinaryMessage) =>
        /\ (last.status0 = PENDING /\ last.query.val = <<"1">>) =>
                StatusAfter = PENDING_PRE_SURVEY /\ Delivered("survey")
        /\ (last.status0 = PENDING_PRE_SURVEY /\ last.query.val # <<"1">>) =>
                StatusAfter = PENDING_PRE_SURVEY /\ Delivered("survey")
        /\ (last.status0 = PENDING_PRE_SURVEY /\ last.query.val = <<"1">>) =>
                StatusAfter = ACTIVE

----------------------------------------------------------------------------
(* Consent without a pre-survey *)

\* The pipeline call of the handling, if any, ended in a reply
GenerationSucceeded ==
    last.exc = "none" /\ last.ret # "empty"

\* What consent brings about without a pre-survey: the session is ACTIVE and
\* the pipeline was called for the seed message alone, whose reply, if
\* generated, was delivered once
ConversationStarted ==
    /\ StatusAfter = ACTIVE
    /\ experiment.seed_message =>
            /\ Len(last.llm) = 1 /\ last.llm[1].kind = "seed"
            /\ GenerationSucceeded => Deliveries("seed") = 1
    /\ ~experiment.seed_message => last.llm = <<>>

\* C3: on Telegram, WhatsApp and Facebook Messenger, with consent gating
\* active and no pre-survey, for a supported non-reset reply while PENDING:
\* "1" (blanks around it ignored) sets the status to ACTIVE and, if a seed
\* message is configured, its one pipeline-generated reply is sent (unless
\* the generation is cancelled or fails); any other text leaves the status
\* PENDING and sends the consent request again.
C3_ConsentFlow ==
    (/\ PushChannel /\ ConsentGated /\ ~experiment.pre_survey
     /\ OrdinaryMessage /\ last.status0 = PENDING) =>
        /\ IsOneAmongBlanks(last.query.val) => ConversationStarted
        /\ ~IsOneAmongBlanks(last.query.val) =>
                StatusAfter = PENDING /\ Deliveries("consent") = 1

\* C3, witness: "1" while PENDING started the conversation with a seed reply
C3_Witness ==
    /\ PushChannel /\ ConsentGated /\ ~experiment.pre_survey
    /\ OrdinaryMessage /\ last.status0 = PENDING
    /\ last.query.val = <<"1">>
    /\ experiment.seed_message
    /\ StatusAfter = ACTIVE
    /\ Deliveries("seed") = 1

\* C3 as stated, on the channels that push texts: the reply counts as "1"
\* only as typed
C3_OnlyOneAsTyped ==
    (/\ PushChannel /\ ConsentGated /\ ~experiment.pre_survey
     /\ OrdinaryMessage /\ last.status0 = PENDING) =>
        /\ last.query.val = <<"1">> => ConversationStarted
        /\ last.query.val # <<"1">> =>
                StatusAfter = PENDING /\ Delivered("consent")

----------------------------------------------------------------------------
(* Gating short-circuits *)

\* The HUMAN entries the handling appended
HumanEntries ==
    { i \in 1..Len(last.appended) : last.appended[i].type = HUMAN }

----------------------------------------------------------------------------
(* Without consent gating *)

\* C5: on a channel other than web, when the experiment has conversational
\* consent disabled, handling a supported non-reset message sets the session
\* status to ACTIVE, whatever it was, before the message goes to the
\* pipeline (the status is ACTIVE also when the pipeline fails); an ACTIVE
\* session stays ACTIVE.
C5_StatusForcedActive ==
    (/\ platform # WEB /\ ~experiment.conversational_consent_enabled
     /\ OrdinaryMessage) =>
        /\ StatusAfter = ACTIVE
        /\ UserTurnToLlm

\* C5, witness: a SETUP session is ACTIVE although the pipeline failed
C5_Witness ==
    /\ platform # WEB /\ ~experiment.conversational_consent_enabled
    /\ OrdinaryMessage
    /\ last.status0 = SETUP
    /\ last.exc = "ProviderError"
    /\ StatusAfter = ACTIVE

\* C5 as stated: also on the web channel
C5_AlsoOnWeb ==
    (/\ platform = WEB \/ ~experiment.conversational_consent_enabled
     /\ OrdinaryMessage) =>
        StatusAfter = ACTIVE

\* C6: on the web channel a message handled for a session never drives the
\* gating, consent enabled or not: no consent request and no survey link is
\* sent or appended, the status stays what it was, and the message is given
\* to the pipeline as a user turn.
C6_WebIsNeverGated ==
    (platform = WEB /\ Handled) =>
        /\ ~Delivered("consent") /\ ~Delivered("survey")
        /\ \A i \in 1..Len(last.appended) :
                last.appended[i].kind \notin {"consent", "survey"}
        /\ StatusAfter = last.status0
        /\ StatusAfter \notin {PENDING, PENDING_PRE_SURVEY}
        /\ Len(last.llm) = 1
        /\ last.llm[1].kind = "user" /\ last.llm[1].text = last.text

\* C6, witness: a web message for a SETUP session of an experiment with
\* conversational consent went to the pipeline
C6_Witness ==
    /\ platform = WEB /\ Handled
    /\ experiment.conversational_consent_enabled
    /\ last.status0 = SETUP
    /\ UserTurnToLlm

----------------------------------------------------------------------------
(* Session resolution *)

\* The sessions of the identity of the last message, the number it had before
MySessions ==
    SessionsOf(sessions, participants, last.chat_id)

SessionsBefore ==
    Cardinality(MySessions) - last.nsessions

\* C7: a non-reset message of an identity that has a session is handled by
\* that session (the identity's latest one where the handler looks it up,
\* the one the handler was built for on web and Slack); no session and no
\* Participant is created.
C7_ExistingSessionIsReused ==
    (Handled /\ last.had # 0 /\ ~IsReset) =>
        /\ last.session = last.had
        /\ ~last.created
        /\ last.nsessions = 0
        /\ last.nparticipants = 0

\* C7, witness: a later message of an identity was handled by the session
\* its earlier message left a history in
C7_Witness ==
    /\ Handled /\ FindsSession /\ ~IsReset
    /\ last.had # 0
    /\ last.history_before # {}
    /\ last.session = last.had
    /\ Len(sessions) = 1 /\ Len(participants) = 1

\* The identity had not conversed: it had no session, or its current session
\* had no exchange
NotYetConversed ==
    ~UserAlreadyEngaged([chat |-> last.history_before])

\* What a reset command of an identity that has not conversed leaves: no
\* session beyond the identity's first, nothing appended to any history, no
\* pipeline call
NothingButTheFirstSession ==
    /\ last.nsessions = (IF last.had = 0 THEN 1 ELSE 0)
    /\ SessionsBefore <= 1 => Cardinality(MySessions) = 1
    /\ last.appended = <<>>
    /\ sessions[last.session].chat = last.history_before
    /\ last.llm = <<>>

\* C8: a reset command (a supported message with the reset text, on the
\* channels that know the command: all but web) of an identity that has not
\* conversed (no session, or no exchange in its current session) creates no
\* additional session: the identity has exactly one session afterwards, the
\* command is not saved in its history and the pipeline is not invoked.
C8_ResetBeforeConversation ==
    (platform # WEB /\ ResetCommand /\ NotYetConversed) =>
        NothingButTheFirstSession

\* C8, witness: a second reset command in a row left the one session with an
\* empty history
C8_Witness ==
    /\ platform # WEB /\ ResetCommand /\ NotYetConversed
    /\ last.had # 0
    /\ FindsSession
    /\ Cardinality(MySessions) = 1
    /\ sessions[last.session].chat = {}

\* What a reset command after an exchange brings about: the session that had
\* the exchange is ended, one session of the same participant is new, not
\* ended, and handles the rest
SessionReplaced ==
    /\ sessions[last.had].ended
    /\ last.nsessions = 1
    /\ last.nparticipants = 0
    /\ last.session = Len(sessions)
    /\ ~sessions[last.session].ended
    /\ sessions[last.session].participant = sessions[last.had].participant
    /\ Cardinality(MySessions) = SessionsBefore + 1

\* C9: on the channels whose handler finds the session by chat identity
\* (Telegram, WhatsApp, Facebook Messenger, API), a reset command after an
\* exchange in the identity's latest session ends that session and creates
\* exactly one new session of the same participant, which is not ended.
C9_ResetAfterConversation ==
    (FindsSession /\ ResetCommand /\ ~NotYetConversed) => SessionReplaced

\* C9, witness: a reset command replaced a session that had an exchange
C9_Witness ==
    /\ FindsSession /\ ResetCommand /\ ~NotYetConversed
    /\ last.didReset
    /\ Len(sessions) = 2
    /\ sessions[1].ended /\ ~sessions[2].ended

\* C9 as stated, on the channels that know the reset command (all but web)
C9_OnEveryChannelWithResets ==
    (platform # WEB /\ ResetCommand /\ ~NotYetConversed) => SessionReplaced

----------------------------------------------------------------------------
(* Two identities *)

\* Both identities have made contact
BothInContact ==
    \A id \in TwoCallers : FindParticipant(participants, id) # 0

\* One session per identity
OneSessionEach ==
    /\ Len(sessions) = 2
    /\ \A id \in TwoCallers : Cardinality(SessionsOf(sessions, participants, id)) = 1

\* The message was handled by, and changed, sessions of its own identity only
HandledByOwnSession ==
    /\ last.session # 0 => last.session \in MySessions
    /\ last.touched \subseteq MySessions
    /\ \A i \in 1..Len(last.appended) : last.appended[i].session \in MySessions
    /\ \A i \in 1..Len(last.llm) : last.llm[i].session \in MySessions

\* C10: when two identities send messages to a channel whose handler finds
\* the session by chat identity and no message resets a session, exactly two
\* sessions exist, one per identity; on every channel a message is handled
\* by, and appended to, sessions of its own identity only.
C10_SessionsScopedToIdentity ==
    /\ (/\ FindsSession /\ BothInContact
        /\ \A s \in 1..Len(sessions) : ~sessions[s].ended) => OneSessionEach
    /\ Handled => HandledByOwnSession

\* C10, witness: the second identity's second message, handled by its own
\* session beside the first identity's
C10_Witness ==
    /\ FindsSession /\ BothInContact /\ OneSessionEach
    /\ Handled /\ last.chat_id = "u2"
    /\ last.history_before # {}
    /\ last.appended # <<>>
    /\ HandledByOwnSession

\* C10 as stated, where the handler finds the session: whatever the messages
C10_WhateverTheMessages ==
    (FindsSession /\ BothInContact) => OneSessionEach

----------------------------------------------------------------------------
(* One current session *)

\* The sessions of the participant that are not ended
CurrentSessions(participant) ==
    { i \in 1..Len(sessions) :
          sessions[i].participant = participant /\ ~sessions[i].ended }

\* No participant has two sessions that are not ended
AtMostOneCurrent ==
    \A p \in 1..Len(participants) : Cardinality(CurrentSessions(p)) <= 1

\* C11: on the channels where inbound messages create the sessions
\* (Telegram, WhatsApp, Facebook Messenger, API; web and Slack sessions are
\* started by start_new_session, which is no inbound message), after every
\* message no participant has more than one session that is not ended; on
\* every channel the session found for a message was not ended when the
\* message arrived, and the session that handled it is not ended afterwards.
C11_OneCurrentSession ==
    [][ /\ FindsSession => AtMostOneCurrent'
        /\ Handled' =>
              /\ last'.had # 0 => ~sessions[last'.had].ended
              /\ last'.session # 0 => ~sessions'[last'.session].ended ]_vars

\* C11, witness: a message after a reset was handled by the session the
\* reset created, with the session it ended still in the store
C11_Witness ==
    /\ FindsSession /\ OrdinaryMessage
    /\ last.had = 2 /\ last.session = 2
    /\ sessions[1].ended /\ ~sessions[2].ended
    /\ sessions[1].participant = sessions[2].participant
    /\ AtMostOneCurrent

----------------------------------------------------------------------------
(* Concurrent first contact *)

\* The Participant rows with the identifier
ParticipantsOf(identifier) ==
    { i \in 1..Len(race.participants) :
          race.participants[i].identifier = identifier }

\* Every creation has ended
AllEnded ==
    \A w \in Workers : race.workers[w].pc \in {"done", "failed"}

----------------------------------------------------------------------------
(* Cancellation seen from the channel *)

\* The pipeline signalled cancellation during the handling
PipelineCancelled ==
    \E i \in 1..Len(last.llm) : last.llm[i].outcome = "cancelled"

\* Nothing was delivered but, for a voice message, the echo of its transcript
NoReplyDelivered ==
    \A i \in 1..Len(last.sent) :
        last.sent[i].body = "heard" /\ last.sent[i].kind = TEXT

\* C13: when the pipeline signals cancellation while new_user_message handles
\* a message, new_user_message returns the empty string, raises nothing and
\* delivers no reply, neither text nor voice (the echo of a voice message's
\* transcript, sent before the pipeline is called, is no reply).
C13_CancellationIsNoReply ==
    (last.op = "message" /\ PipelineCancelled) =>
        /\ last.ret = "empty"
        /\ last.exc = "none"
        /\ NoReplyDelivered

\* C13, witness: the generation for a user's text was cancelled after the
\* human turn was saved
C13_Witness ==
    /\ last.op = "message" /\ PipelineCancelled
    /\ UserTurnToLlm
    /\ last.ret = "empty" /\ last.exc = "none"
    /\ last.sent = <<>>
    /\ \E i \in 1..Len(last.appended) : last.appended[i].type = HUMAN

----------------------------------------------------------------------------
(* Cancellation checks while streaming *)

\* C14: while the simple and the agent runnable stream, a chunk that arrives
\* after a check has been made reads the cancellation flag from storage again
\* if and only if at least check_every_ms = 1000 milliseconds have passed
\* since that check.
C14_RereadAfterOneSecond ==
    (run.tok.seen /\ ~run.tok.first) =>
        (run.tok.read <=> run.tok.since >= check_every_ms)

\* A check read the flag from storage and found it set
FlagObserved ==
    run.tok.seen /\ run.tok.read /\ run.tok.flag

\* C15: when a check during streaming reads the flag and finds it set, no
\* further chunk is consumed, invoke ends by raising GenerationCancelled with
\* the output accumulated up to and including that chunk, no AI entry is
\* saved to the history, and the HUMAN entry saved before generation (unless
\* save_input_to_history is off) stays.
C15_CancelledStreamStops ==
    FlagObserved =>
        /\ run.pc = "done"
        /\ run.consumed = run.tok.index
        /\ run.result.kind = "cancelled"
        /\ run.result.exc = "GenerationCancelled"
        /\ run.result.output = run.tok.output
        /\ run.history = IF run.save_input_to_history
                         THEN <<[type |-> HUMAN, content |-> Input]>>
                         ELSE <<>>

\* C15, witness: the flag was set after the first chunk and found set at the
\* second, which came late enough for a check; the output is the two chunks
C15_Witness ==
    /\ FlagObserved
    /\ run.variant = "simple"
    /\ run.tok.index = 2 /\ run.reads = 2
    /\ run.result.kind = "cancelled"
    /\ run.result.output = <<"a", "a">>
    /\ run.save_input_to_history
    /\ Len(run.history) = 1

----------------------------------------------------------------------------
(* The assistant's retries *)

\* The rounds in which the provider said that the thread of the call has an
\* active run
BusyHere ==
    { k \in 1..Len(run.attempts) :
          /\ run.attempts[k].kind = "thread_busy"
          /\ run.attempts[k].thread = run.call_thread_id }

\* The rounds in which it said so of another thread
BusyElsewhere ==
    { k \in 1..Len(run.attempts) :
          /\ run.attempts[k].kind = "thread_busy"
          /\ run.attempts[k].thread # run.call_thread_id }

\* invoke ended by raising the exception
Raised_(e) ==
    /\ run.pc = "done"
    /\ run.result.kind = "raised"
    /\ run.result.exc = e

\* C16: in assistant mode every thread-busy error for the thread of the call
\* cancels the run it names exactly once and, unless it was the third
\* attempt, is followed by another attempt; the provider is invoked at most 3
\* times per invoke, and when all 3 attempts end in such an error
\* GenerationError is raised.
C16_BusyThreadIsRetried ==
    run.pc \in {"assistant", "done"} =>
        /\ Len(run.cancels) = Cardinality(BusyHere)
        /\ \A i \in 1..Len(run.cancels) :
              /\ run.cancels[i].thread = run.call_thread_id
              /\ \E k \in BusyHere : run.cancels[i].run = run.attempts[k].run
        /\ \A k \in BusyHere :
              (k = Len(run.attempts) /\ k < Retries) => run.pc = "assistant"
        /\ Len(run.attempts) <= Retries
        /\ BusyHere = 1..Retries => Raised_("GenerationError")

\* C16, witness: three attempts found the thread busy, three runs were
\* cancelled, GenerationError was raised
C16_Witness ==
    /\ BusyHere = 1..Retries
    /\ Len(run.cancels) = Retries
    /\ Raised_("GenerationError")

\* C17: in assistant mode a thread-busy error that names another thread than
\* the call's (the call of a first turn has none) raises GenerationError at
\* once: no run is cancelled for it and the provider is not invoked again.
C17_OtherThreadIsNotRetried ==
    \A k \in BusyElsewhere :
        /\ k = Len(run.attempts)
        /\ Raised_("GenerationError")
        /\ Len(run.cancels) = Cardinality(BusyHere)

\* C17, witness: the first turn of a chat, whose call has no thread, was told
\* that a thread is busy
C17_Witness ==
    /\ run.call_thread_id = "none"
    /\ Len(run.attempts) = 1
    /\ BusyElsewhere = {1}
    /\ run.cancels = <<>>
    /\ Raised_("GenerationError")

\* The rounds that ended in an error other than thread-busy for the thread of
\* the call and cancelled-by-another-actor
OtherErrors ==
    { k \in 1..Len(run.attempts) :
          \/ run.attempts[k].kind \in {"bad_request", "value_error", "api_error"}
          \/ k \in BusyElsewhere }

\* C18: in assistant mode an error of the provider call other than thread-busy
\* for the thread of the call and cancelled-by-another-actor aborts the invoke
\* when it first occurs: invoke raises and the provider is not invoked again.
C18_OtherErrorsAbort ==
    \A k \in OtherErrors :
        /\ k = Len(run.attempts)
        /\ run.pc = "done"
        /\ run.result.kind = "raised"

\* C19: in assistant mode a provider error saying that the run is being or
\* was cancelled ends invoke with GenerationCancelled, whose output is empty
\* and whose prompt and completion token counts are zero; there is no further
\* attempt.
C19_CancelledElsewhere ==
    \A k \in 1..Len(run.attempts) :
        run.attempts[k].kind = "value_cancelled" =>
            /\ k = Len(run.attempts)
            /\ run.pc = "done"
            /\ run.result.kind = "cancelled"
            /\ run.result.exc = "GenerationCancelled"
            /\ run.result.output = <<>>
            /\ run.result.prompt_tokens = 0
            /\ run.result.completion_tokens = 0

\* C19, witness: the second attempt, after a cancelled run, was told that its
\* own run was cancelled
C19_Witness ==
    /\ Len(run.attempts) = 2
    /\ BusyHere = {1}
    /\ run.attempts[2].kind = "value_cancelled"
    /\ run.result.kind = "cancelled"
    /\ run.result.output = <<>>

----------------------------------------------------------------------------
(* The choice of the runnable *)

\* C20: an experiment that references an assistant gets the assistant
\* runnable, whatever its tools flag; otherwise one with tools enabled gets
\* the agent runnable; otherwise it gets the simple runnable.  Without an
\* assistant, a missing LLM model or provider is rejected before a runnable
\* is built.
C20_VariantByPriority ==
    run.pc # "new" =>
        LET e == run.experiment
        IN /\ e.assistant => run.variant = "assistant"
           /\ (~e.assistant /\ (~e.llm \/ ~e.llm_provider)) =>
                 run.variant = "none" /\ Raised_("AssertionError")
           /\ (~e.assistant /\ e.llm /\ e.llm_provider /\ e.tools_enabled) =>
                 run.variant = "agent"
           /\ (~e.assistant /\ e.llm /\ e.llm_provider /\ ~e.tools_enabled) =>
                 run.variant = "simple"

\* C20, witness: an experiment with an assistant and tools enabled got the
\* assistant runnable
C20_Witness ==
    /\ run.pc = "created"
    /\ run.experiment.assistant /\ run.experiment.tools_enabled
    /\ run.variant = "assistant"

----------------------------------------------------------------------------
(* The options of invoke *)

\* invoke returned its result
Succeeded ==
    run.pc = "done" /\ run.result.kind = "output"

\* The entries the invoke appended to the history
Appended ==
    SubSeq(run.history, Len(run.before) + 1, Len(run.history))

\* The generations of the invoke: the times the chain was run and the
\* responses the assistant gave
Generations ==
    run.streams + Cardinality({k \in 1..Len(run.attempts) : run.attempts[k].kind = "response"})

\* C21: invoke with save_input_to_history false appends no HUMAN entry for
\* the input; a successful invoke (that saves its output, the default) then
\* grows the history by one entry, the AI reply, and generates once: the
\* chain is run once, or the assistant responds once.
C21_InputNotSaved ==
    ~run.save_input_to_history =>
        /\ \A k \in 1..Len(Appended) : Appended[k].type # HUMAN
        /\ (Succeeded /\ run.save_output_to_history) =>
              /\ run.history = run.before \o <<[type |-> AI, content |-> run.result.output]>>
              /\ Generations = 1

\* C21, witness: an agent invoked without saving the input returned a reply
\* of two chunks
C21_Witness ==
    /\ ~run.save_input_to_history /\ run.save_output_to_history
    /\ run.variant = "agent"
    /\ Succeeded
    /\ run.result.output = <<"a", "a">>
    /\ Len(run.history) = 1

\* C22: in every variant (simple, agent, assistant) invoke with
\* save_output_to_history false appends no AI entry to the history, and
\* returns the generated text in its result.
C22_OutputNotSaved ==
    (Succeeded /\ ~run.save_output_to_history) =>
        /\ \A k \in 1..Len(Appended) : Appended[k].type # AI
        /\ run.result.output = run.output

----------------------------------------------------------------------------
(* The assistant's thread *)

\* C30: in assistant mode the thread id in the chat's metadata is set at most
\* once: a stored id is never replaced; every call of the assistant is given
\* the id stored when it is made, none if none is stored; and a successful
\* invoke that found none stored stores the thread of the response.
C30_ThreadIdSetAtMostOnce ==
    [][ /\ run.thread_id # "none" => run'.thread_id = run.thread_id
        /\ Len(run'.sent) > Len(run.sent) =>
              run'.sent[Len(run'.sent)] = run.thread_id
        /\ (run.pc = "assistant" /\ run.thread_id = "none") =>
              IF run'.pc = "done" /\ run'.result.kind = "output"
              THEN run'.thread_id = run'.attempts[Len(run'.attempts)].thread
              ELSE run'.thread_id = "none" ]_vars

\* C30, witness: the second call of an invoke that found no thread id was
\* given none as the first, and the thread of its response was stored
C30_Witness ==
    /\ run.variant = "assistant"
    /\ run.sent = <<"none", "none">>
    /\ Succeeded
    /\ run.attempts[2].thread = "thread_b"
    /\ run.thread_id = "thread_b"

----------------------------------------------------------------------------
(* The prompt *)

\* The chain was given its prompt
Prompted ==
    run.variant \in {"simple", "agent"} /\ run.pc \in {"streaming", "done"}

\* The messages of the prompt between the system message and the input
PromptHistory ==
    SubSeq(run.prompt, 2, Len(run.prompt) - 1)

\* The history fits the token budget, or compression is off
WithinBudget ==
    run.max_token_limit = 0 \/ TokensOf(run.before) <= run.max_token_limit

\* C23 as stated: in the simple and agent variants with default options the
\* prompt is the system message, then all the entries persisted before the
\* invoke in insertion order, then the current input once.
C23_WholeHistoryThenInput ==
    Prompted =>
        /\ Len(run.prompt) = Len(run.before) + 2
        /\ PromptHistory = run.before

\* C23, amended: in the simple and agent variants with default options the
\* history is loaded before the HUMAN entry is persisted, the HUMAN entry is
\* persisted before generation starts and the AI entry after it completes:
\* the prompt is the system message, then the entries persisted before the
\* invoke as history compression returns them (all of them, in insertion
\* order, when compression is off or they fit the token budget), then the
\* current input once; a successful invoke grows the history by two entries,
\* HUMAN then AI.
C23_HistoryThenInput ==
    Prompted =>
        /\ run.prompt[1].type = SYSTEM
        /\ PromptHistory = CompressChatHistory(run.before, run.max_token_limit)
        /\ WithinBudget => PromptHistory = run.before
        /\ run.prompt[Len(run.prompt)] = [type |-> HUMAN, content |-> Input]
        /\ \A k \in 1..Len(PromptHistory) : PromptHistory[k].content # Input
        /\ run.pc = "streaming" =>
              run.history = run.before \o <<[type |-> HUMAN, content |-> Input]>>
        /\ Succeeded =>
              run.history = run.before \o <<[type |-> HUMAN, content |-> Input],
                                            [type |-> AI, content |-> run.result.output]>>

\* C23, witness: an agent invoked on a chat of two entries, which fit, was
\* given four messages and left a history of four entries
C23_Witness ==
    /\ run.variant = "agent"
    /\ Len(run.before) = 2 /\ WithinBudget
    /\ Succeeded
    /\ Len(run.prompt) = 4
    /\ Len(run.history) = 4
    /\ run.history[4].type = AI

\* The runnable run would be for a session with other participant data
WithData(data) ==
    [run EXCEPT !.session.data = data]

\* The prompt the runnable r gives its model
PromptOf(r) ==
    IF r.variant = "assistant" THEN InputDict(r) ELSE Prompt(r)

\* C24: participant data reaches the prompt only for authorized
\* participants: for a web session whose participant has no linked user the
\* placeholder is replaced by the empty string whatever data is stored, for
\* every other channel and linked user by the stored data; web sessions
\* without linked user that differ only in the stored data get the same
\* prompt.
C24_DataOnlyForAuthorized ==
    run.prompt # <<>> =>
        /\ run.prompt[1].content =
              <<"p">> \o (IF run.session.platform = WEB /\ ~run.session.user
                          THEN <<>> ELSE run.session.data)
        /\ (run.session.platform = WEB /\ ~run.session.user) =>
              \A data \in {s.data : s \in Sessions} : PromptOf(WithData(data)) = run.prompt

\* C24, witness: the simple chain of a web session without linked user, for
\* whom data is stored, was given a prompt without it
C24_Witness ==
    /\ run.variant = "simple" /\ run.pc = "streaming"
    /\ run.session = [platform |-> WEB, user |-> FALSE, data |-> <<"d">>]
    /\ run.prompt[1].content = <<"p">>

----------------------------------------------------------------------------
(* Messages the channel cannot take *)

\* The audio of the voice message could not be fetched or transcribed
TranscriptionFailed ==
    /\ last.op = "message"
    /\ last.content_type = VOICE
    /\ last.ntrans > 0
    /\ ~TextExtracted

\* C27: if fetching or transcribing the audio of a VOICE message raises, the
\* user is sent one LLM-generated error notice and the original exception is
\* raised to the caller; the transcript is not announced
\* (transcription_finished) and the pipeline is not given a user turn for
\* the message.
C27_TranscriptionFailureIsReported ==
    TranscriptionFailed =>
        /\ Deliveries("error") = 1
        /\ last.exc = "TranscriptionError"
        /\ ~Delivered("heard")
        /\ ~UserTurnToLlm

\* The message is of a type the channel does not support
Unsupported ==
    /\ last.op = "message"
    /\ ~IsMessageTypeSupported(LastMessage)

\* The entries of a type that the handling appended to the history
AppendedOf(type) ==
    { k \in 1..Len(last.appended) : last.appended[k].type = type }

\* C28: a message of an unsupported type is not an error: handling it
\* appends one SYSTEM entry, delivers one LLM-generated explanation as text,
\* raises nothing, and leaves the session, its status and the gating as they
\* were: no consent request, no survey link, no HUMAN entry.
C28_UnsupportedIsExplained ==
    Unsupported =>
        /\ Cardinality(AppendedOf(SYSTEM)) = 1
        /\ Deliveries("unsupported") = 1
        /\ \A i \in 1..Len(last.sent) :
                last.sent[i].body = "unsupported" => last.sent[i].kind = TEXT
        /\ last.exc = "none"
        /\ last.had # 0 => last.session = last.had /\ StatusAfter = last.status_before
        /\ ~Delivered("consent") /\ ~Delivered("survey")
        /\ AppendedOf(HUMAN) = {}

\* A web or Slack handler was handed a message without a session
WithoutSession ==
    /\ last.op = "message"
    /\ platform \in {WEB, SLACK}
    /\ last.bound = 0

\* C29: handling a message on the web channel or the Slack channel without a
\* session raises MessageHandlerException at once: no session and no
\* participant is created, no history entry is appended, nothing is sent, no
\* event is raised and the pipeline is not invoked.
C29_NoSessionIsRefused ==
    WithoutSession =>
        /\ last.exc = "MessageHandlerException"
        /\ last.nsessions = 0 /\ last.nparticipants = 0
        /\ last.touched = {}
        /\ last.appended = <<>>
        /\ last.sent = <<>>
        /\ last.events = <<>>
        /\ last.llm = <<>>

\* C29, witness: a Slack handler built without a session was handed a
\* message of an identity that has a session
C29_Witness ==
    /\ WithoutSession
    /\ platform = SLACK
    /\ last.had # 0
    /\ last.exc = "MessageHandlerException"

----------------------------------------------------------------------------
(* Voice replies *)

\* The deliveries of a kind with the text
DeliveriesAs(kind, body) ==
    Cardinality({ i \in 1..Len(last.sent) :
                    last.sent[i].body = body /\ last.sent[i].kind = kind })

\* C25: for every reply handed to the reply dispatch (_send_message_to_user:
\* the pipeline's answer, the seed reply, the error notice), voice is chosen
\* if and only if the channel declares voice replies supported, the
\* experiment has a synthetic voice, and the policy is ALWAYS or it is
\* RECIPROCAL and the inbound message is a VOICE message; otherwise
\* send_text_to_user is chosen, which delivers the text on every channel
\* that pushes texts.  No voice is sent on a channel that does not support
\* voice replies.
C25_VoiceOnlyByPolicy ==
    /\ \A k \in 1..Len(last.replies) :
          /\ last.replies[k].voice <=>
                /\ platform = TELEGRAM \/ (platform \in {WHATSAPP, FACEBOOK}
                                            /\ service.voice_replies_supported)
                /\ experiment.synthetic_voice
                /\ \/ experiment.voice_response_behaviour = ALWAYS
                   \/ /\ experiment.voice_response_behaviour = RECIPROCAL
                      /\ last.content_type = VOICE
          /\ (~last.replies[k].voice /\ PushesTexts) =>
                DeliveriesAs(TEXT, last.replies[k].body) = 1
    /\ \A i \in 1..Len(last.sent) :
          last.sent[i].kind = VOICE => VoiceRepliesSupported

\* C25, witness: under the RECIPROCAL policy the answer to a voice message
\* on Telegram was sent as voice
C25_Witness ==
    /\ platform = TELEGRAM
    /\ experiment.synthetic_voice
    /\ experiment.voice_response_behaviour = RECIPROCAL
    /\ last.content_type = VOICE
    /\ Len(last.replies) = 1 /\ last.replies[1].voice
    /\ DeliveriesAs(VOICE, "user") = 1

\* C26: when a voice reply is chosen and the synthesis fails, the same text
\* is delivered as text and the failure is not propagated; the user gets one
\* delivery for the reply, voice or text, never both and never none.
C26_SynthesisFailureFallsBackToText ==
    \A k \in 1..Len(last.replies) :
        last.replies[k].voice =>
            /\ Deliveries(last.replies[k].body) = 1
            /\ DeliveriesAs(IF last.replies[k].synth = "fail" THEN TEXT ELSE VOICE,
                            last.replies[k].body) = 1
            /\ last.exc # "AudioSynthesizeException"
            /\ last.replies[k].body = "user" => last.exc = "none" /\ last.ret = "user"

\* C26, witness: under the ALWAYS policy the answer to a text message on
\* Facebook Messenger could not be synthesized and was sent as text
C26_Witness ==
    /\ platform = FACEBOOK
    /\ experiment.voice_response_behaviour = ALWAYS
    /\ last.content_type = TEXT
    /\ Len(last.replies) = 1
    /\ last.replies[1] = [body |-> "user", voice |-> TRUE, synth |-> "fail"]
    /\ last.sent = <<[kind |-> TEXT, body |-> "user"]>>
    /\ last.exc = "none"

----------------------------------------------------------------------------
(* The reset command and the gating *)

\* C31: on a channel other than web a reset command (a supported message
\* whose text is the command) never advances the gating and never reaches
\* the pipeline: no consent request, survey link or reply is sent, no history
\* entry is appended, and the session found for the identity keeps its
\* status, whatever it is; a session the reset creates starts in SETUP.
C31_ResetIsNotGated ==
    (ResetCommand /\ platform # WEB) =>
        /\ ~Delivered("consent") /\ ~Delivered("survey")
        /\ ~Delivered("user") /\ ~Delivered("seed")
        /\ last.replies = <<>>
        /\ last.llm = <<>>
        /\ last.appended = <<>>
        /\ last.exc = "none" /\ last.ret = "None"
        /\ last.had # 0 => sessions[last.had].status = last.status_before
        /\ last.session # last.had => sessions[last.session].status = SETUP

\* C31, witness: a reset command reached a session waiting for consent; the
\* session was ended as it was, and the one that replaces it was asked
\* nothing
C31_Witness ==
    /\ ResetCommand /\ platform = TELEGRAM
    /\ last.status_before = PENDING
    /\ last.didReset
    /\ sessions[last.had].status = PENDING
    /\ StatusAfter = SETUP
    /\ last.sent = <<>>

----------------------------------------------------------------------------
(* The consent token *)

\* The prompt of a gating status: the consent request or the survey link
PromptOfStatus(status) ==
    IF status = PENDING THEN "consent" ELSE "survey"

\* How often the handling appended the prompt to the history
PromptsAppended(kind) ==
    Cardinality({ k \in 1..Len(last.appended) :
                    last.appended[k].type = AI /\ last.appended[k].kind = kind })

\* C32 as stated: during consent gating every reply whose text is not
\* exactly "1" leaves the status unchanged and is answered with the current
\* prompt again.
C32_OnlyOneExactly ==
    (/\ ConsentGated /\ Handled /\ IsMessageTypeSupported(LastMessage)
     /\ TextExtracted
     /\ last.status_before \in {PENDING, PENDING_PRE_SURVEY}
     /\ last.query.val # <<"1">>) =>
        /\ last.session = last.had
        /\ StatusAfter = last.status_before
        /\ PromptsAppended(PromptOfStatus(last.status_before)) = 1

\* C32, amended: during consent gating the only reply accepted as consent or
\* confirmation is "1", blanks around it ignored: it moves the session on;
\* every other reply, the reset command apart, leaves the status unchanged
\* and is answered with the current prompt again, which is appended to the
\* history and, on the channels that push texts, sent.
C32_OnlyStrippedOneConsents ==
    (/\ ConsentGated /\ OrdinaryMessage
     /\ last.status0 \in {PENDING, PENDING_PRE_SURVEY}) =>
        /\ IsOneAmongBlanks(last.query.val) => StatusAfter # last.status0
        /\ ~IsOneAmongBlanks(last.query.val) =>
              /\ StatusAfter = last.status0
              /\ PromptsAppended(PromptOfStatus(last.status0)) = 1
              /\ PushesTexts => Deliveries(PromptOfStatus(last.status0)) = 1
              /\ last.llm = <<>>

\* C32, witness: an empty reply to the consent request was answered with the
\* consent request
C32_Witness ==
    /\ ConsentGated /\ OrdinaryMessage
    /\ platform = WHATSAPP
    /\ last.status0 = PENDING
    /\ last.query.val = <<>>
    /\ StatusAfter = PENDING
    /\ Deliveries("consent") = 1

----------------------------------------------------------------------------
(* The order of the statuses *)

\* The place of a status on the way SETUP, PENDING, PENDING_PRE_SURVEY, ACTIVE
StatusRank(status) ==
    CASE status = SETUP -> 0
      [] status = PENDING -> 1
      [] status = PENDING_PRE_SURVEY -> 2
      [] OTHER -> 3

\* C33: within one session the status only moves forward along SETUP,
\* PENDING, PENDING_PRE_SURVEY, ACTIVE: no operation moves a session to an
\* earlier status, and an ACTIVE session stays ACTIVE (a reset creates
\* another session).
C33_StatusOnlyMovesForward ==
    [][ \A i \in 1..Len(sessions) :
            /\ i <= Len(sessions')
            /\ sessions'[i].participant = sessions[i].participant
            /\ StatusRank(sessions'[i].status) >= StatusRank(sessions[i].status)
            /\ sessions[i].status = ACTIVE => sessions'[i].status = ACTIVE ]_vars

\* C33, witness: a session that waited for the pre-survey became ACTIVE, and
\* it is not the identity's first session
C33_Witness ==
    /\ Handled
    /\ last.status_before = PENDING_PRE_SURVEY
    /\ last.session = last.had
    /\ StatusAfter = ACTIVE
    /\ last.session > 1

----------------------------------------------------------------------------
(* The input formatter *)

\* C34: in assistant mode with an input formatter the formatter is applied
\* to the user's text once per invoke: every attempt submits the content the
\* first attempt submitted, the text formatted once.
C34_FormattedOnce ==
    (run.variant = "assistant" /\ run.input_formatter) =>
        \A k \in 1..Len(run.submitted) :
            /\ run.submitted[k] = <<"f">> \o Input \o <<"b">>
            /\ run.submitted[k] = run.submitted[1]

----------------------------------------------------------------------------
(* What an assistant invoke leaves in the history *)

\* The HUMAN turn an invoke saves, if the caller did not turn that off
HumanTurn ==
    IF run.save_input_to_history THEN <<[type |-> HUMAN, content |-> Input]>> ELSE <<>>

\* C35: in assistant mode an invoke saves the HUMAN turn once (if enabled)
\* however many attempts it makes, and an AI turn only when an attempt got a
\* response; when it ends in GenerationError, in a provider error or in
\* GenerationCancelled, the history has gained the HUMAN turn only and the
\* stored thread id is the one the invoke found.
C35_HumanOnceAiOnSuccess ==
    (run.variant = "assistant" /\ run.pc \in {"assistant", "done"}) =>
        /\ run.pc = "assistant" => run.history = run.before \o HumanTurn
        /\ (run.pc = "done" /\ run.result.kind = "output") =>
              /\ run.attempts[Len(run.attempts)].kind = "response"
              /\ run.history = run.before \o HumanTurn
                                  \o <<[type |-> AI, content |-> run.result.output]>>
        /\ (run.pc = "done" /\ run.result.kind # "output") =>
              /\ run.result.kind \in {"raised", "cancelled"}
              /\ run.history = run.before \o HumanTurn
              /\ run.thread_id = run.call_thread_id

\* C35, witness: three attempts found the thread busy and GenerationError
\* was raised; the history has the one HUMAN turn, the thread id is the old
C35_Witness ==
    /\ run.variant = "assistant" /\ run.pc = "done"
    /\ Len(run.attempts) = Retries
    /\ run.result.exc = "GenerationError"
    /\ run.save_input_to_history
    /\ run.history = <<[type |-> HUMAN, content |-> Input]>>
    /\ run.thread_id = "thread_a"

\* C35, witness: a first turn whose provider call failed leaves no thread id
C35_WitnessNoThread ==
    /\ run.variant = "assistant" /\ run.pc = "done"
    /\ run.result.exc = "APIError"
    /\ run.thread_id = "none"
    /\ Len(run.history) = 1

----------------------------------------------------------------------------
(* How often a voice message is transcribed *)

\* C36: while one inbound VOICE message is handled its audio is transcribed
\* (started, fetched, transcribed, finished) at most once, however often the
\* user query is read and whatever the transcript is, an empty one included.
C36_TranscribedAtMostOnce ==
    (Handled /\ last.content_type = VOICE) => last.ntrans <= 1

----------------------------------------------------------------------------
(* The cancellation flag in storage *)

\* A generation that follows a cancelled one on the same chat, the flag
\* still set, is cancelled at its first check: the check is made at the
\* first chunk, reads the flag from storage and ends the generation
LaterGenerationCancelledAtFirstCheck ==
    (run.invokes > 1 /\ run.tok.seen) =>
        /\ run.tok.index = 1 /\ run.tok.read /\ run.tok.flag /\ run.tok.ret
        /\ run.consumed = 1
        /\ run.pc = "done"
        /\ run.result.kind = "cancelled"
        /\ run.history = run.before \o HumanTurn

\* C37: no step of an invoke, whether it completes, fails or is cancelled,
\* writes metadata.cancelled: the flag changes only when another actor sets
\* it.  After a cancelled generation the flag is therefore still set, and a
\* later generation on the same chat is cancelled at its first check.
C37_FlagOnlyRead ==
    [][ /\ \/ run'.metadata_cancelled = run.metadata_cancelled
           \/ run' = [run EXCEPT !.metadata_cancelled = TRUE]
        /\ run'.invokes > 1 => run'.metadata_cancelled
        /\ LaterGenerationCancelledAtFirstCheck' ]_vars

\* C37, witness: the second generation of a chat was cancelled at its first
\* chunk by the flag the first generation had obeyed
C37_Witness ==
    /\ run.invokes = 2
    /\ run.pc = "done"
    /\ run.variant = "simple"
    /\ run.result.kind = "cancelled"
    /\ run.result.output = <<"a">>
    /\ run.reads = 1
    /\ run.metadata_cancelled

----------------------------------------------------------------------------
(* The events of joining and of starting a conversation *)

\* The events of the type for sessions of experiment e and the identifier
EventsFor(type, e, identifier) ==
    { k \in 1..Len(race.events) :
          /\ race.events[k].type = type
          /\ race.events[k].session \in SessionsIn(race, e, identifier) }

\* C38: over any sequence of operations of the channels, "participant
\* joined" has been emitted exactly once for every experiment and chat
\* identity that has a session, for the first of these sessions; sessions
\* reused or made by a reset add none; "conversation start" has been emitted
\* once for every session.
C38_JoinedOncePerExperimentAndIdentity ==
    \A e \in TeamExperiments, identifier \in TwoCallers :
        LET mine == SessionsIn(race, e, identifier)
            joined == EventsFor("participant_joined", e, identifier)
        IN /\ Cardinality(joined) = IF mine = {} THEN 0 ELSE 1
           /\ \A k \in joined : \A i \in mine : race.events[k].session <= i
           /\ \A i \in mine :
                 Cardinality({ k \in EventsFor("conversation_start", e, identifier) :
                                 race.events[k].session = i }) = 1

----------------------------------------------------------------------------
(* Cancelling a stuck run *)

\* The loop polls while, and only while, the status reported last is
\* "cancelling", and sleeps once after each such poll
PollsOnlyWhileCancelling ==
    /\ run.pc \in {"retrieve", "sleep"} => run.status = "cancelling"
    /\ run.pc = "returned" => run.status \in SettledStatuses
    /\ (run.pc # "cancel" /\ run.first # "cancelling") =>
          run.pc = "returned" /\ run.polls = 0 /\ run.sleeps = 0 /\ run.slept = 0
    /\ run.polls <= MaxCancelling =>
          /\ run.pc = "retrieve" => run.sleeps = run.polls
          /\ run.pc = "sleep" => run.sleeps = run.polls - 1
          /\ (run.pc = "returned" /\ run.polls > 0) => run.sleeps = run.polls - 1
          /\ run.slept = run.sleeps * run.check_every_ms
    /\ run.asked \subseteq {<<run.thread_id, run.run_id>>}
    /\ run.provider = "never" => run.pc # "returned"

\* C39: _cancel_run polls the run only while the provider reports
\* "cancelling": it returns as soon as another status is reported, without a
\* poll or a sleep if the cancel call reports one; it returns if the
\* provider in the end reports another status, and never if the provider
\* never does.
C39_PollsWhileCancelling ==
    /\ []PollsOnlyWhileCancelling
    /\ (run.provider = "settles") ~> (run.pc = "returned")

\* C39, witness: the cancel call and two polls said "cancelling", the third
\* poll said "cancelled"; there were two sleeps
C39_Witness ==
    /\ run.pc = "returned"
    /\ run.first = "cancelling"
    /\ run.polls = 3 /\ run.sleeps = 2
    /\ run.check_every_ms = 1000 /\ run.slept = 2000
    /\ run.status = "cancelled"

\* C39, witness: a provider that never settles has been polled more often
\* than one that settles can be
C39_WitnessUnbounded ==
    /\ run.provider = "never"
    /\ run.polls > MaxCancelling

----------------------------------------------------------------------------
(* Two first messages at the same time *)

\* Two handlers took first messages of one chat identity and have ended
TwoFirstMessages ==
    /\ AllEnded
    /\ \A w \in Workers : race.workers[w].op = "message"
    /\ \A w, v \in Workers : race.workers[w].identifier = race.workers[v].identifier

\* C40 as stated: however the two handlers interleave, one session exists
\* for the identity afterwards and both messages are handled by it.
C40_OneSessionForBoth ==
    TwoFirstMessages =>
        /\ Cardinality(RowsOf(race.workers[1].identifier)) = 1
        /\ \A w, v \in Workers : race.workers[w].session = race.workers[v].session

\* C40, amended: however the two handlers interleave, one or two sessions
\* exist for the identity afterwards.  A handler whose
\* session query ran when a session of the identity existed creates none and
\* handles its message with that session; a handler whose query ran before
\* any existed creates one and handles its message with its own.
C40_OneSessionPerBlindHandler ==
    TwoFirstMessages =>
        LET mine == RowsOf(race.workers[1].identifier)
            blind == { w \in Workers : race.workers[w].saw = 0 }
        IN /\ Cardinality(mine) \in 1..MaxWorkers
           /\ Cardinality(mine) = Cardinality(blind)
           /\ \A w \in Workers : race.workers[w].session \in mine
           /\ \A w, v \in blind : w # v => race.workers[w].session # race.workers[v].session
           /\ \A w \in Workers \ blind :
                 \E v \in blind : race.workers[w].session = race.workers[v].session

\* C40, witness: both handlers looked before either had created a session;
\* the identity has two sessions and each message has its own
C40_Witness ==
    /\ TwoFirstMessages
    /\ \A w \in Workers : race.workers[w].saw = 0
    /\ Cardinality(RowsOf(race.workers[1].identifier)) = MaxWorkers
    /\ race.workers[1].session # race.workers[2].session

\* C40, witness: one handler looked after the other had created its session
\* and took it
C40_WitnessShared ==
    /\ TwoFirstMessages
    /\ \E w \in Workers : race.workers[w].saw = 1
    /\ Cardinality(RowsOf(race.workers[1].identifier)) = 1
    /\ race.workers[1].session = race.workers[2].session

====
